---- MODULE Spec2Model ----
(***************************************************************************)
(* Generation orchestration pipeline of app/server.py: prompt firewall,    *)
(* negative-prompt composition, ComfyUI workflow construction, the         *)
(* submit / poll / fetch job tracker, result persistence with its audit    *)
(* entry, and the synchronous and asynchronous (callback) entry points.    *)
(*                                                                         *)
(* Every request is one asyncio coroutine (plus, for /generate-async, one  *)
(* background task).  Code between two awaits runs without interleaving,   *)
(* so one action is one such stretch: it starts when an awaited call       *)
(* (an HTTP exchange with the engine or the callback URL, or a sleep)      *)
(* finishes and runs up to the next await or to the end of the coroutine.  *)
(*                                                                         *)
(* Text is a sequence of tokens (words and separators), so that lower(),   *)
(* strip() and the \b...\b patterns act on something they can change.      *)
(* Optional fields are <<>> (None) or <<v>>.  Integers that do not fit     *)
(* TLC's 32 bits (seeds, uuid ints) are pairs <<hi, lo>> standing for      *)
(* hi * 2^16 + lo with lo in 0 .. 2^16 - 1.                                *)
(***************************************************************************)
EXTENDS Integers, Sequences, FiniteSets, TLC

\* ------------------------------------------------------------------ bounds
\* Largest deadline (seconds) given to wait_for_completion.
MaxTimeout == 2
\* Largest extra delay (seconds) an awaited call can add beyond its nominal time.
MaxDelay == 1
\* Largest number of words in a prompt given directly to validate_prompt.
MaxWords == 2
\* Largest number of direct calls of save_and_hash_image in a run.
MaxSaves == 2
\* Largest number of tokens in a negative prompt given to build_safe_prompt.
MaxNegative == 3

\* Largest of the small counts build_image_variations is followed for.
MaxCount == 12

\* ------------------------------------------------------- optional values
None == <<>>

Some(v) == <<v>>

\* Python truthiness of an Optional[int]: None and 0 are falsy.
Truthy(x) == x # None /\ x[1] # 0

\* `x or d` on an Optional[int].
OrDefault(x, d) == IF Truthy(x) THEN x[1] ELSE d

\* ---------------------------------------------------------- wide integers
Limb == 2^16

Num(hi, lo) == <<hi, lo>>

IsPositive(n) == n[1] > 0 \/ (n[1] = 0 /\ n[2] > 0)

IsZero(n) == n[1] = 0 /\ n[2] = 0

\* n % (2**32): the low 32 bits.
Mod2_32(n) == <<n[1] % Limb, n[2]>>

InRange2_32(n) == n[1] >= 0 /\ n[1] < Limb /\ n[2] >= 0 /\ n[2] < Limb

\* ----------------------------------------------------------- configuration
DEFAULT_STEPS == 32

DEFAULT_CFG == 6

DEFAULT_WIDTH == 1024

DEFAULT_HEIGHT == 1024

MODEL_NAME == "juggernautXL_v9.safetensors"

GLOBAL_NEGATIVE_PROMPT ==
  <<"\n", "celebrity", ",", " ", "famous", " ", "person", ",", " ", "actor", ",", " ",
    "actress", ",", " ", "influencer", ",", " ", "model", ",", "\n",
    "real", " ", "person", ",", " ", "known", " ", "face", ",", " ",
    "instagram", " ", "face", ",", " ", "tiktok", " ", "face", ",", "\n",
    "beauty", " ", "filter", ",", " ", "airbrushed", " ", "skin", ",", " ",
    "plastic", " ", "skin", ",", "\n",
    "anime", ",", " ", "illustration", ",", " ", "painting", ",", " ", "cgi", ",", " ",
    "3d", " ", "render", ",", "\n",
    "teen", ",", " ", "teenage", ",", " ", "young-looking", ",", " ", "childlike", ",", " ",
    "youthful", " ", "face", ",", "\n",
    "school", " ", "uniform", ",", " ", "student", ",", " ", "cosplay", ",", "\n",
    "distorted", " ", "face", ",", " ", "extra", " ", "fingers", ",", " ",
    "deformed", " ", "eyes", "\n">>

\* ------------------------------------------------------------------- text
Whitespace == {" ", "\n", "\t"}

RECURSIVE LStrip(_)
LStrip(t) == IF t # <<>> /\ Head(t) \in Whitespace THEN LStrip(Tail(t)) ELSE t

RECURSIVE RStrip(_)
RStrip(t) ==
  IF t # <<>> /\ t[Len(t)] \in Whitespace THEN RStrip(SubSeq(t, 1, Len(t) - 1)) ELSE t

\* str.strip()
Strip(t) == RStrip(LStrip(t))

LowerTable ==
  [w \in {"Taylor", "Swift", "Teen", "Actress", "A", "Photo"} |->
     CASE w = "Taylor" -> "taylor"
       [] w = "Swift" -> "swift"
       [] w = "Teen" -> "teen"
       [] w = "Actress" -> "actress"
       [] w = "A" -> "a"
       [] w = "Photo" -> "photo"]

LowerTok(w) == IF w \in DOMAIN LowerTable THEN LowerTable[w] ELSE w

\* str.lower()
Lower(t) == [i \in 1..Len(t) |-> LowerTok(t[i])]

W1(a) == <<a>>

W2(a, b) == <<a, " ", b>>

W3(a, b, c) == <<a, " ", b, " ", c>>

BLOCKED_PATTERNS ==
  << [category |-> "celebrities",
      alternatives |->
        {W2("taylor", "swift"), W2("scarlett", "johansson"), W2("emma", "watson"),
         W2("jennifer", "lawrence"), W2("megan", "fox"), W2("kim", "kardashian"),
         W2("ariana", "grande"), W2("selena", "gomez"), W1("beyonce"), W1("rihanna"),
         W2("angelina", "jolie"), W2("margot", "robbie"), W2("gal", "gadot"),
         W1("zendaya"), W2("billie", "eilish")}],
     [category |-> "professions",
      alternatives |->
        {W1("actress"), W1("actor"), W2("famous", "model"), W1("influencer"),
         W1("celebrity"), W2("famous", "person")}],
     [category |-> "references",
      alternatives |->
        {W2("look", "like"), W2("looks", "like"), W1("resemble"), W1("resembles"),
         W2("similar", "to"), W2("based", "on"), W2("inspired", "by")}],
     [category |-> "age_down",
      alternatives |->
        {W1("younger"), W1("teen"), W1("teenage"), W1("underage"), W1("school"),
         W1("student"), W1("childlike"), W1("loli"), W1("shota")}],
     [category |-> "uniforms",
      alternatives |->
        {W2("school", "uniform"), W2("cheerleader", "uniform"), W1("schoolgirl"),
         W3("college", "girl", "uniform")}],
     [category |-> "face_swap",
      alternatives |->
        {W2("face", "swap"), W1("deepfake"), W2("my", "face"), W2("her", "face"),
         W2("his", "face"), W3("real", "photo", "of")}],
     [category |-> "illegal",
      alternatives |->
        {W1("child"), W1("minor"), W1("kid"), W1("forced"), <<"non", "-", "consensual">>,
         W1("nonconsensual"), W1("rape")}] >>

\* re.search(r"\b(a1|a2|...)\b", text, re.IGNORECASE): some alternative occurs in
\* the text as a run of whole tokens, compared without case.
Search(alternatives, text) ==
  \E a \in alternatives :
    \E i \in 1..(Len(text) - Len(a) + 1) :
      Lower(SubSeq(text, i, i + Len(a) - 1)) = Lower(a)

\* ------------------------------------------------------------------ state
VARIABLES
  ENABLE_SAFETY,  \* configuration flag, fixed for the life of the process
  clients,        \* the requests that arrive while the process runs
  now,            \* asyncio event loop time (seconds)
  pc,             \* per request: the await its coroutine is suspended at
  req,            \* per request: the parsed request body
  seed,           \* per request: local `seed` of the handler
  workflow,       \* per request: local `workflow`
  prompt_id,      \* per request: local `prompt_id`
  timeout,        \* per request: parameter `timeout` of wait_for_completion
  start_time,     \* per request: local `start_time` of wait_for_completion
  history,        \* per request: the record wait_for_completion returned
  cursor,         \* per request: position of get_generated_image in its loops
  wake,           \* per request: when its asyncio.sleep is due
  response,       \* per request: what the HTTP caller received
  spawned,        \* per request: background_tasks.add_task was called
  task,           \* per request: how the background task ended
  exc,            \* per request: the exception the pipeline raised, and where
  callbacks,      \* per request: the POSTs attempted to callback_url, in order
  posted,         \* engine: workflows received on POST /prompt, per request
  queried,        \* engine: ids asked on GET /history/{id}, per request, in order
  viewed,         \* engine: filenames asked on GET /view, per request, in order
  nextId,         \* engine: next prompt id to hand out
  answer,         \* engine: per request, the last answer it gave the pipeline
  store,          \* OUTPUT_DIR: the writes made, in order
  auditLog,       \* the audit entries logged, in order
  calls           \* direct calls of the module's functions: arguments and result

vars ==
  <<ENABLE_SAFETY, clients, now, pc, req, seed, workflow, prompt_id, timeout, start_time,
    history, cursor, wake, response, spawned, task, exc, callbacks, posted, queried,
    viewed, nextId, answer, store, auditLog, calls>>

config == <<ENABLE_SAFETY, clients>>

engine == <<posted, queried, viewed, nextId, answer>>

disk == <<store, auditLog>>

Reqs == {1, 2}

\* ----------------------------------------------------------------- inputs
P_mountain == <<"a", " ", "mountain", " ", "landscape", " ", "at", " ", "sunset">>

P_taylor ==
  <<"a", " ", "photo", " ", "of", " ", "taylor", " ", "swift", " ", "at", " ", "the",
    " ", "beach">>

\* Mixed case, and matching two categories (professions, age_down).
P_teen == <<" ", "Teen", " ", "Actress">>

Prompts == {P_mountain, P_taylor, P_teen}

\* The last one names a person the filter blocks in a prompt.
N_taylor == <<"taylor", " ", "swift">>

NegativePrompts == {Some(<<>>), Some(<<"blurry">>), Some(N_taylor)}

Seeds == {None, Some(Num(-1, Limb - 1)), Some(Num(0, 0)), Some(Num(0, 5))}

\* Values of uuid.uuid4().int (128 bits in the program; the samples reach above 2^32).
UuidInts == {Num(0, 0), Num(Limb, 7), Num(3 * Limb - 1, Limb - 1)}

\* uuid.uuid4().hex[:8] of save_and_hash_image.
Suffixes == {"0a1b2c3d", "4e5f6a7b"}

\* steps, cfg_scale, width, height of a request.
ParamProfiles ==
  { <<None, None, None, None>>,
    <<Some(20), Some(7), Some(512), Some(768)>>,
    <<Some(20), None, None, None>>,
    <<None, Some(7), None, None>>,
    <<None, None, Some(512), None>>,
    <<None, None, None, Some(768)>>,
    <<Some(0), Some(0), Some(0), Some(0)>> }

BaseRequest(e) ==
  [endpoint |-> e, prompt |-> P_mountain, negative_prompt |-> Some(<<>>),
   seed |-> Some(Num(0, 5)), steps |-> None, cfg_scale |-> None, width |-> None,
   height |-> None, persona_id |-> Some("persona-1"), user_id |-> Some("user-1")]

\* The request bodies: each group of fields varies around the base request (the
\* handlers resolve the groups independently of each other).
GenerateRequests(e) ==
  {[BaseRequest(e) EXCEPT !.prompt = p] : p \in Prompts}
    \cup {[BaseRequest(e) EXCEPT !.negative_prompt = n] : n \in NegativePrompts}
    \cup {[BaseRequest(e) EXCEPT !.seed = s] : s \in Seeds}
    \cup {[BaseRequest(e) EXCEPT !.steps = p[1], !.cfg_scale = p[2], !.width = p[3],
                                 !.height = p[4]] : p \in ParamProfiles}

\* GenerateAsyncRequest: the fields of GenerateRequest, request_id and callback_url.
WithCallback(q, request_id) ==
  [f \in DOMAIN q \cup {"request_id", "callback_url"} |->
     CASE f = "request_id" -> request_id
       [] f = "callback_url" -> "https://client.example/hook"
       [] OTHER -> q[f]]

GenerateAsyncRequests ==
  {WithCallback(q, "abc123") : q \in GenerateRequests("generate-async")}
    \cup {WithCallback([BaseRequest("generate-async") EXCEPT !.seed = None], "def456")}

NoRequest == [endpoint |-> "none"]

\* ------------------------------------------------------ engine's answers
Img(f) == [filename |-> f, subfolder |-> ""]

NodeOut(images) == [images |-> images]

\* history[prompt_id]: "outputs" absent, or node id -> node output in the
\* engine's order; a node output has an "images" list or none.
Histories ==
  { [outputs |-> None],
    [outputs |-> Some(<< <<"8", NodeOut(None)>> >>)],
    [outputs |-> Some(<< <<"9", NodeOut(Some(<<Img("a.png")>>))>> >>)],
    [outputs |-> Some(<< <<"9", NodeOut(Some(<<Img("a.png"), Img("b.png")>>))>> >>)],
    [outputs |-> Some(<< <<"8", NodeOut(None)>>, <<"9", NodeOut(Some(<<Img("b.png")>>))>> >>)] }

NoHistory == [outputs |-> None, absent |-> TRUE]

\* The bytes the engine serves for a file.
Content(filename) == "png:" \o filename

\* ------------------------------------------------------------- exceptions
NoExc == [type |-> "none", status_code |-> 0, detail |-> "", at |-> "none"]

\* raise HTTPException(status_code, detail) at pipeline stage `at`.
HTTPException(status_code, detail, at) ==
  [type |-> "HTTPException", status_code |-> status_code, detail |-> detail, at |-> at]

\* Any other exception (httpx transport errors, KeyError, OSError) with message `msg`.
OtherException(msg, at) ==
  [type |-> "Exception", status_code |-> 0, detail |-> msg, at |-> at]

\* str(e): Starlette's HTTPException prints "<status>: <detail>".
Str(e) ==
  IF e.type = "HTTPException" THEN ToString(e.status_code) \o ": " \o e.detail ELSE e.detail

\* -------------------------------------------------------- pure functions
RECURSIVE FirstMatch(_, _)
\* The loop of validate_prompt from category i on: index of the first category
\* whose pattern is found, 0 when the loop ends without one.
FirstMatch(i, text) ==
  IF i > Len(BLOCKED_PATTERNS) THEN 0
  ELSE IF Search(BLOCKED_PATTERNS[i].alternatives, text) THEN i
  ELSE FirstMatch(i + 1, text)

\* Variant: the loop does not return at the first pattern found, the last
\* category found is reported.
validate_prompt_last(prompt) ==
  IF ~ENABLE_SAFETY THEN [is_valid |-> TRUE, error |-> ""]
  ELSE LET prompt_lower == Lower(prompt)
           found == {i \in 1..Len(BLOCKED_PATTERNS) :
                       Search(BLOCKED_PATTERNS[i].alternatives, prompt_lower)}
       IN IF found # {}
          THEN [is_valid |-> FALSE,
                error |-> "Prompt rejected: "
                            \o BLOCKED_PATTERNS[CHOOSE k \in found :
                                                  \A j \in found : j <= k].category
                            \o " content not allowed"]
          ELSE [is_valid |-> TRUE, error |-> ""]

\* Variant: the message also quotes the first word of the prompt.
validate_prompt_echo(prompt) ==
  IF ~ENABLE_SAFETY THEN [is_valid |-> TRUE, error |-> ""]
  ELSE LET prompt_lower == Lower(prompt)
           k == FirstMatch(1, prompt_lower)
       IN IF k # 0
          THEN [is_valid |-> FALSE,
                error |-> "Prompt rejected: " \o BLOCKED_PATTERNS[k].category
                            \o " content not allowed: " \o prompt_lower[1]]
          ELSE [is_valid |-> TRUE, error |-> ""]

\* Variant: the patterns are applied whatever ENABLE_SAFETY says.
validate_prompt_always(prompt) ==
  LET prompt_lower == Lower(prompt)
      k == FirstMatch(1, prompt_lower)
  IN IF k # 0
     THEN [is_valid |-> FALSE,
           error |-> "Prompt rejected: " \o BLOCKED_PATTERNS[k].category
                       \o " content not allowed"]
     ELSE [is_valid |-> TRUE, error |-> ""]

validate_prompt(prompt) ==
  IF ~ENABLE_SAFETY THEN [is_valid |-> TRUE, error |-> ""]
  ELSE LET prompt_lower == Lower(prompt)
           k == FirstMatch(1, prompt_lower)
       IN IF k # 0
          THEN [is_valid |-> FALSE,
                error |-> "Prompt rejected: " \o BLOCKED_PATTERNS[k].category
                            \o " content not allowed"]
          ELSE [is_valid |-> TRUE, error |-> ""]

build_safe_prompt(prompt, negative_prompt) ==
  LET safe_prompt == Strip(prompt)
      combined_negative ==
        IF negative_prompt # <<>>
        THEN negative_prompt \o <<",", " ">> \o Strip(GLOBAL_NEGATIVE_PROMPT)
        ELSE Strip(GLOBAL_NEGATIVE_PROMPT)
  IN [prompt |-> safe_prompt, negative |-> Strip(combined_negative)]

\* Variant: the SaveImage node names its files after the seed.
build_comfyui_workflow_seeded(prompt, negative_prompt, seed_, steps, cfg, width, height, model_name) ==
  ("3" :> [class_type |-> "KSampler",
           inputs |-> [seed |-> seed_, steps |-> steps, cfg |-> cfg,
                       sampler_name |-> "dpmpp_2m", scheduler |-> "karras",
                       denoise |-> 1, model |-> <<"4", 0>>, positive |-> <<"6", 0>>,
                       negative |-> <<"7", 0>>, latent_image |-> <<"5", 0>>]])
  @@ ("4" :> [class_type |-> "CheckpointLoaderSimple",
              inputs |-> [ckpt_name |-> model_name]])
  @@ ("5" :> [class_type |-> "EmptyLatentImage",
              inputs |-> [width |-> width, height |-> height, batch_size |-> 1]])
  @@ ("6" :> [class_type |-> "CLIPTextEncode",
              inputs |-> [text |-> prompt, clip |-> <<"4", 1>>]])
  @@ ("7" :> [class_type |-> "CLIPTextEncode",
              inputs |-> [text |-> negative_prompt, clip |-> <<"4", 1>>]])
  @@ ("8" :> [class_type |-> "VAEDecode",
              inputs |-> [samples |-> <<"3", 0>>, vae |-> <<"4", 2>>]])
  @@ ("9" :> [class_type |-> "SaveImage",
              inputs |-> [filename_prefix |-> "xinmate_" \o ToString(seed_[2]),
                          images |-> <<"8", 0>>]])

build_comfyui_workflow(prompt, negative_prompt, seed_, steps, cfg, width, height, model_name) ==
  ("3" :> [class_type |-> "KSampler",
           inputs |-> [seed |-> seed_, steps |-> steps, cfg |-> cfg,
                       sampler_name |-> "dpmpp_2m", scheduler |-> "karras",
                       denoise |-> 1, model |-> <<"4", 0>>, positive |-> <<"6", 0>>,
                       negative |-> <<"7", 0>>, latent_image |-> <<"5", 0>>]])
  @@ ("4" :> [class_type |-> "CheckpointLoaderSimple",
              inputs |-> [ckpt_name |-> model_name]])
  @@ ("5" :> [class_type |-> "EmptyLatentImage",
              inputs |-> [width |-> width, height |-> height, batch_size |-> 1]])
  @@ ("6" :> [class_type |-> "CLIPTextEncode",
              inputs |-> [text |-> prompt, clip |-> <<"4", 1>>]])
  @@ ("7" :> [class_type |-> "CLIPTextEncode",
              inputs |-> [text |-> negative_prompt, clip |-> <<"4", 1>>]])
  @@ ("8" :> [class_type |-> "VAEDecode",
              inputs |-> [samples |-> <<"3", 0>>, vae |-> <<"4", 2>>]])
  @@ ("9" :> [class_type |-> "SaveImage",
              inputs |-> [filename_prefix |-> "xinmate", images |-> <<"8", 0>>]])

NoWorkflow == <<>>

\* Variant: the test `req.seed > 0` is left out, a negative seed is used as given.
ResolveSeed_truthy(s, u) ==
  IF s # None /\ ~IsZero(s[1]) THEN s[1] ELSE Mod2_32(u)

\* req.seed if req.seed and req.seed > 0 else int(uuid.uuid4().int % (2**32)),
\* u being the value of uuid.uuid4().int.
ResolveSeed(s, u) ==
  IF s # None /\ ~IsZero(s[1]) /\ IsPositive(s[1]) THEN s[1] ELSE Mod2_32(u)

\* req.negative_prompt or ""
NegativeOrEmpty(n) == IF n # None /\ n[1] # <<>> THEN n[1] ELSE <<>>

\* The workflow the handlers build from a request, given the resolved seed.
WorkflowFor(q, sd) ==
  LET sp == build_safe_prompt(q.prompt, NegativeOrEmpty(q.negative_prompt))
  IN build_comfyui_workflow(sp.prompt, sp.negative, sd,
                            OrDefault(q.steps, DEFAULT_STEPS),
                            OrDefault(q.cfg_scale, DEFAULT_CFG),
                            OrDefault(q.width, DEFAULT_WIDTH),
                            OrDefault(q.height, DEFAULT_HEIGHT),
                            MODEL_NAME)

RECURSIVE Join(_)
\* The string a token sequence stands for.
Join(t) == IF t = <<>> THEN "" ELSE Head(t) \o Join(Tail(t))

\* hashlib.sha256(data).hexdigest()[:16], kept symbolic.
Sha16(data) == "sha256:" \o data

RECURSIVE ImagesOf(_)
\* The image entries get_generated_image visits, in its order: for each output
\* node that has "images", each entry of the list.
ImagesOf(nodes) ==
  IF nodes = <<>> THEN <<>>
  ELSE LET out == Head(nodes)[2]
       IN (IF out.images # None THEN out.images[1] ELSE <<>>) \o ImagesOf(Tail(nodes))

\* history.get("outputs", {})
Outputs(h) == IF h.outputs # None THEN h.outputs[1] ELSE <<>>

\* Variant: the audit entry holds the prompt itself.
save_and_hash_image_rawprompt(image_data, metadata, suffix) ==
  LET image_hash == Sha16(image_data)
      filename == image_hash \o "_" \o suffix \o ".png"
  IN [filename |-> filename,
      image_hash |-> image_hash,
      audit_entry |->
        [image_hash |-> image_hash,
         filename |-> filename,
         timestamp |-> now,
         persona_id |-> metadata.persona_id,
         user_id |-> metadata.user_id,
         seed |-> metadata.seed,
         prompt_hash |-> Join(metadata.prompt)]]

\* Variant: the digest is cut to 16 characters for the filename and the audit
\* entry only, the whole digest is returned.
save_and_hash_image_uncut(image_data, metadata, suffix) ==
  LET image_hash == Sha16(image_data)
      filename == image_hash \o "_" \o suffix \o ".png"
  IN [filename |-> filename,
      image_hash |-> image_hash \o "+48 more digits",
      audit_entry |->
        [image_hash |-> image_hash,
         filename |-> filename,
         timestamp |-> now,
         persona_id |-> metadata.persona_id,
         user_id |-> metadata.user_id,
         seed |-> metadata.seed,
         prompt_hash |-> Sha16(Join(metadata.prompt))]]

\* What save_and_hash_image computes from the bytes, the metadata and the
\* value of uuid.uuid4().hex[:8].
save_and_hash_image(image_data, metadata, suffix) ==
  LET image_hash == Sha16(image_data)
      filename == image_hash \o "_" \o suffix \o ".png"
  IN [filename |-> filename,
      image_hash |-> image_hash,
      audit_entry |->
        [image_hash |-> image_hash,
         filename |-> filename,
         timestamp |-> now,
         persona_id |-> metadata.persona_id,
         user_id |-> metadata.user_id,
         seed |-> metadata.seed,
         prompt_hash |-> Sha16(Join(metadata.prompt))]]

\* ---------------------------------------------------------------- answers
NoResponse == [kind |-> "none"]

\* What FastAPI sends for a raised HTTPException: a transport-level error.
HTTPError(status_code, detail) ==
  [kind |-> "HTTPError", status_code |-> status_code, detail |-> detail]

GenerateResponse(success, image_url, image_hash, seed_used, error) ==
  [kind |-> "GenerateResponse", success |-> success, image_url |-> image_url,
   image_hash |-> image_hash, seed_used |-> seed_used, error |-> error]

AsyncQueuedResponse(rid, message) ==
  [kind |-> "AsyncQueuedResponse", status |-> "queued", request_id |-> rid,
   message |-> message]

\* callback_data of process_async_generation.
SuccessPayload(r, filename, image_hash, sd) ==
  [request_id |-> req[r].request_id, status |-> "completed",
   image_url |-> "/images/" \o filename, image_hash |-> image_hash,
   seed_used |-> sd, user_id |-> req[r].user_id, persona_id |-> req[r].persona_id]

\* error_data of process_async_generation.
ErrorPayload(r, e) ==
  [request_id |-> req[r].request_id, status |-> "failed", error |-> Str(e),
   user_id |-> req[r].user_id]

\* One POST to callback_url: its body and how the attempt ended.
Post(url, payload) == [url |-> url, payload |-> payload, result |-> "pending"]

\* The POSTs so far, the one in flight (if any) having ended with `result`.
Settle(posts, result) ==
  [i \in 1..Len(posts) |->
     IF posts[i].result = "pending" THEN [posts[i] EXCEPT !.result = result] ELSE posts[i]]

\* The engine (or the transport) answered a call: the path asked, the status
\* (0 when the call raised) and whether the answer held what was asked for.
NoAnswer == [path |-> "none"]

Answer(path, status_code, found) ==
  [path |-> path, status_code |-> status_code, found |-> found]

\* ------------------------------------------------------------------- init
Boot ==
  /\ ENABLE_SAFETY \in BOOLEAN
  /\ now = 0
  /\ pc = [r \in Reqs |-> "idle"]
  /\ req = [r \in Reqs |-> NoRequest]
  /\ seed = [r \in Reqs |-> None]
  /\ workflow = [r \in Reqs |-> NoWorkflow]
  /\ prompt_id = [r \in Reqs |-> None]
  /\ timeout = [r \in Reqs |-> None]
  /\ start_time = [r \in Reqs |-> None]
  /\ history = [r \in Reqs |-> NoHistory]
  /\ cursor = [r \in Reqs |-> 0]
  /\ wake = [r \in Reqs |-> 0]
  /\ response = [r \in Reqs |-> NoResponse]
  /\ spawned = [r \in Reqs |-> FALSE]
  /\ task = [r \in Reqs |-> "none"]
  /\ exc = [r \in Reqs |-> NoExc]
  /\ callbacks = [r \in Reqs |-> <<>>]
  /\ posted = [r \in Reqs |-> <<>>]
  /\ queried = [r \in Reqs |-> <<>>]
  /\ viewed = [r \in Reqs |-> <<>>]
  /\ nextId = 1
  /\ answer = [r \in Reqs |-> NoAnswer]
  /\ store = <<>>
  /\ auditLog = <<>>
  /\ calls = <<>>

\* One request arrives.
Init == Boot /\ clients = {1}

\* ------------------------------------------------------ leaving the pipeline
\* Variant: no `except HTTPException: raise`, every exception is answered in-band.
SyncRaise_inband(r, e) ==
  /\ exc' = [exc EXCEPT ![r] = e]
  /\ response' =
       [response EXCEPT ![r] = [kind |-> "GenerateResponse", success |-> FALSE,
                                image_url |-> None, image_hash |-> None,
                                seed_used |-> None,
                                error |-> Some(IF e.type = "HTTPException"
                                               THEN ToString(e.status_code) \o ": "
                                                      \o e.detail
                                               ELSE e.detail)]]
  /\ pc' = [pc EXCEPT ![r] = "done"]
  /\ UNCHANGED <<callbacks, task>>

\* Variant: no `except Exception`, every exception leaves the handler and
\* FastAPI answers 500 for the ones that are no HTTPException.
SyncRaise_unhandled(r, e) ==
  /\ exc' = [exc EXCEPT ![r] = e]
  /\ response' =
       [response EXCEPT ![r] =
          IF e.type = "HTTPException"
          THEN [kind |-> "HTTPError", status_code |-> e.status_code, detail |-> e.detail]
          ELSE [kind |-> "HTTPError", status_code |-> 500,
                detail |-> "Internal Server Error"]]
  /\ pc' = [pc EXCEPT ![r] = "done"]
  /\ UNCHANGED <<callbacks, task>>

\* generate_image's handlers: an HTTPException is re-raised (FastAPI answers
\* with its status), any other exception becomes GenerateResponse(success=False).
SyncRaise(r, e) ==
  /\ exc' = [exc EXCEPT ![r] = e]
  /\ response' =
       [response EXCEPT ![r] =
          IF e.type = "HTTPException" THEN HTTPError(e.status_code, e.detail)
          ELSE GenerateResponse(FALSE, None, None, None, Some(Str(e)))]
  /\ pc' = [pc EXCEPT ![r] = "done"]
  /\ UNCHANGED <<callbacks, task>>

\* Variant: the except clause only logs, no error_data is posted.
AsyncRaise_silent(r, e) ==
  /\ exc' = [exc EXCEPT ![r] = e]
  /\ callbacks' = [callbacks EXCEPT ![r] = Settle(@, "raised")]
  /\ task' = [task EXCEPT ![r] = "returned"]
  /\ pc' = [pc EXCEPT ![r] = "done"]
  /\ UNCHANGED response

\* process_async_generation's handler: every Exception leads to the POST of
\* error_data to callback_url.
AsyncRaise(r, e) ==
  /\ exc' = [exc EXCEPT ![r] = e]
  /\ callbacks' = [callbacks EXCEPT ![r] = Append(Settle(@, "raised"),
                                           Post(req[r].callback_url, ErrorPayload(r, e)))]
  /\ pc' = [pc EXCEPT ![r] = "callback_error"]
  /\ UNCHANGED <<response, task>>

\* An exception raised inside the try block of the request's coroutine.
Raise(r, e) ==
  IF req[r].endpoint = "generate" THEN SyncRaise(r, e) ELSE AsyncRaise(r, e)

\* ------------------------------------------------------------- entry points
\* Variant: the filter is given the prompt and the negative prompt together.
generate_image_bothfields(r) ==
  /\ pc[r] = "idle"
  /\ \E q \in GenerateRequests("generate"), u \in UuidInts :
       /\ req' = [req EXCEPT ![r] = q]
       /\ LET v == validate_prompt(q.prompt \o <<" ">> \o NegativeOrEmpty(q.negative_prompt))
          IN IF ~v.is_valid
             THEN /\ response' = [response EXCEPT ![r] = HTTPError(400, v.error)]
                  /\ exc' = [exc EXCEPT ![r] = HTTPException(400, v.error, "validate")]
                  /\ pc' = [pc EXCEPT ![r] = "done"]
                  /\ UNCHANGED <<seed, workflow, posted>>
             ELSE LET sd == ResolveSeed(q.seed, u)
                      wf == WorkflowFor(q, sd)
                  IN /\ seed' = [seed EXCEPT ![r] = Some(sd)]
                     /\ workflow' = [workflow EXCEPT ![r] = wf]
                     /\ posted' = [posted EXCEPT ![r] = Append(@, wf)]
                     /\ pc' = [pc EXCEPT ![r] = "queue_prompt"]
                     /\ UNCHANGED <<response, exc>>
  /\ UNCHANGED <<config, calls, now, prompt_id, timeout, start_time, history, cursor, wake,
                 spawned, task, callbacks, queried, viewed, nextId, answer, disk>>

\* POST /generate up to its first await (the POST to the engine in queue_prompt).
generate_image(r) ==
  /\ pc[r] = "idle"
  /\ \E q \in GenerateRequests("generate"), u \in UuidInts :
       /\ req' = [req EXCEPT ![r] = q]
       /\ LET v == validate_prompt(q.prompt)
          IN IF ~v.is_valid
             THEN /\ response' = [response EXCEPT ![r] = HTTPError(400, v.error)]
                  /\ exc' = [exc EXCEPT ![r] = HTTPException(400, v.error, "validate")]
                  /\ pc' = [pc EXCEPT ![r] = "done"]
                  /\ UNCHANGED <<seed, workflow, posted>>
             ELSE LET sd == ResolveSeed(q.seed, u)
                      wf == WorkflowFor(q, sd)
                  IN /\ seed' = [seed EXCEPT ![r] = Some(sd)]
                     /\ workflow' = [workflow EXCEPT ![r] = wf]
                     /\ posted' = [posted EXCEPT ![r] = Append(@, wf)]
                     /\ pc' = [pc EXCEPT ![r] = "queue_prompt"]
                     /\ UNCHANGED <<response, exc>>
  /\ UNCHANGED <<config, calls, now, prompt_id, timeout, start_time, history, cursor, wake,
                 spawned, task, callbacks, queried, viewed, nextId, answer, disk>>

\* Variant: the verdict of validate_prompt is not looked at.
generate_image_async_unchecked(r) ==
  /\ pc[r] = "idle"
  /\ \E q \in GenerateAsyncRequests :
       /\ req' = [req EXCEPT ![r] = q]
       /\ spawned' = [spawned EXCEPT ![r] = TRUE]
       /\ task' = [task EXCEPT ![r] = "pending"]
       /\ response' =
            [response EXCEPT ![r] =
               AsyncQueuedResponse(q.request_id, "Image generation started in background")]
       /\ pc' = [pc EXCEPT ![r] = "background"]
       /\ UNCHANGED exc
  /\ UNCHANGED <<config, calls, now, seed, workflow, prompt_id, timeout, start_time, history,
                 cursor, wake, callbacks, engine, disk>>

\* Variant: the handler awaits process_async_generation instead of adding it as
\* a background task, so nothing is answered while the pipeline runs.
generate_image_async_awaited(r) ==
  /\ pc[r] = "idle"
  /\ \E q \in GenerateAsyncRequests :
       /\ req' = [req EXCEPT ![r] = q]
       /\ LET v == validate_prompt(q.prompt)
          IN IF ~v.is_valid
             THEN /\ response' = [response EXCEPT ![r] = HTTPError(400, v.error)]
                  /\ exc' = [exc EXCEPT ![r] = HTTPException(400, v.error, "validate")]
                  /\ pc' = [pc EXCEPT ![r] = "done"]
                  /\ UNCHANGED <<spawned, task>>
             ELSE /\ spawned' = [spawned EXCEPT ![r] = TRUE]
                  /\ task' = [task EXCEPT ![r] = "pending"]
                  /\ pc' = [pc EXCEPT ![r] = "background"]
                  /\ UNCHANGED <<response, exc>>
  /\ UNCHANGED <<config, calls, now, seed, workflow, prompt_id, timeout, start_time, history,
                 cursor, wake, callbacks, engine, disk>>

\* POST /generate-async: validation, then the background task is added and the
\* acknowledgment returned.
generate_image_async(r) ==
  /\ pc[r] = "idle"
  /\ \E q \in GenerateAsyncRequests :
       /\ req' = [req EXCEPT ![r] = q]
       /\ LET v == validate_prompt(q.prompt)
          IN IF ~v.is_valid
             THEN /\ response' = [response EXCEPT ![r] = HTTPError(400, v.error)]
                  /\ exc' = [exc EXCEPT ![r] = HTTPException(400, v.error, "validate")]
                  /\ pc' = [pc EXCEPT ![r] = "done"]
                  /\ UNCHANGED <<spawned, task>>
             ELSE /\ spawned' = [spawned EXCEPT ![r] = TRUE]
                  /\ task' = [task EXCEPT ![r] = "pending"]
                  /\ response' =
                       [response EXCEPT ![r] =
                          AsyncQueuedResponse(q.request_id,
                                              "Image generation started in background")]
                  /\ pc' = [pc EXCEPT ![r] = "background"]
                  /\ UNCHANGED exc
  /\ UNCHANGED <<config, calls, now, seed, workflow, prompt_id, timeout, start_time, history,
                 cursor, wake, callbacks, engine, disk>>

\* process_async_generation up to its first await (the POST in queue_prompt).
process_async_generation(r) ==
  /\ pc[r] = "background"
  /\ \E u \in UuidInts :
       LET sd == ResolveSeed(req[r].seed, u)
           wf == WorkflowFor(req[r], sd)
       IN /\ seed' = [seed EXCEPT ![r] = Some(sd)]
          /\ workflow' = [workflow EXCEPT ![r] = wf]
          /\ posted' = [posted EXCEPT ![r] = Append(@, wf)]
  /\ task' = [task EXCEPT ![r] = "running"]
  /\ pc' = [pc EXCEPT ![r] = "queue_prompt"]
  /\ UNCHANGED <<config, calls, now, req, prompt_id, timeout, start_time, history, cursor,
                 wake, response, spawned, exc, callbacks, queried, viewed, nextId,
                 answer, disk>>

\* ------------------------------------------------------------ job tracker
EngineTexts == {"invalid prompt"}

\* The engine's answers to POST /prompt: 200 with a prompt_id, another status
\* with a text, or no answer at all (the call raises).
SubmitAnswers ==
  {[status_code |-> 200, text |-> ""]}
    \cup [status_code : {500}, text : EngineTexts]
    \cup {[status_code |-> 0, text |-> "raised"]}

\* The deadlines wait_for_completion is called with.  The handlers leave the
\* parameter at its default of 300 s; the loop is followed for small deadlines.
Timeouts == 0..MaxTimeout

\* Variant: the status of the answer is not tested, the prompt_id is read from
\* whatever body came.
queue_prompt_unchecked(r) ==
  /\ pc[r] = "queue_prompt"
  /\ \E a \in SubmitAnswers, t \in Timeouts :
       /\ answer' = [answer EXCEPT ![r] = Answer("/prompt", a.status_code, a.status_code = 200)]
       /\ IF a.status_code = 0
          THEN /\ Raise(r, OtherException("All connection attempts failed", "submit"))
               /\ UNCHANGED <<prompt_id, timeout, start_time, nextId>>
          ELSE /\ prompt_id' = [prompt_id EXCEPT ![r] = Some(nextId)]
               /\ nextId' = nextId + 1
               /\ timeout' = [timeout EXCEPT ![r] = Some(t)]
               /\ start_time' = [start_time EXCEPT ![r] = Some(now)]
               /\ pc' = [pc EXCEPT ![r] = "poll"]
               /\ UNCHANGED <<response, exc, callbacks, task>>
  /\ UNCHANGED <<config, calls, now, req, seed, workflow, history, cursor, wake, spawned,
                 posted, queried, viewed, disk>>

\* queue_prompt after its POST was answered, and wait_for_completion up to its loop.
queue_prompt(r) ==
  /\ pc[r] = "queue_prompt"
  /\ \E a \in SubmitAnswers, t \in Timeouts :
       /\ answer' = [answer EXCEPT ![r] = Answer("/prompt", a.status_code, a.status_code = 200)]
       /\ IF a.status_code = 0
          THEN /\ Raise(r, OtherException("All connection attempts failed", "submit"))
               /\ UNCHANGED <<prompt_id, timeout, start_time, nextId>>
          ELSE IF a.status_code # 200
          THEN /\ Raise(r, HTTPException(500, "ComfyUI error: " \o a.text, "submit"))
               /\ UNCHANGED <<prompt_id, timeout, start_time, nextId>>
          ELSE /\ prompt_id' = [prompt_id EXCEPT ![r] = Some(nextId)]
               /\ nextId' = nextId + 1
               /\ timeout' = [timeout EXCEPT ![r] = Some(t)]
               /\ start_time' = [start_time EXCEPT ![r] = Some(now)]
               /\ pc' = [pc EXCEPT ![r] = "poll"]
               /\ UNCHANGED <<response, exc, callbacks, task>>
  /\ UNCHANGED <<config, calls, now, req, seed, workflow, history, cursor, wake, spawned,
                 posted, queried, viewed, disk>>

\* Variant: the deadline is tested against the time of the previous iteration,
\* one more second passes before it is noticed.
DeadlineExceeded_stale(elapsed, limit) == elapsed - 1 > limit

\* Variant: `elapsed >= timeout`
DeadlineExceeded_ge(elapsed, limit) == elapsed >= limit

\* `elapsed > timeout`
DeadlineExceeded(elapsed, limit) == elapsed > limit

\* Variant: the id to ask for is kept in one place for the whole process (the
\* id of the job submitted last) instead of in the coroutine's own local.
wait_for_completion_check_shared(r) ==
  /\ pc[r] = "poll"
  /\ LET elapsed == now - start_time[r][1]
     IN IF DeadlineExceeded(elapsed, timeout[r][1])
        THEN /\ Raise(r, HTTPException(504,
                            "Generation timeout after " \o ToString(timeout[r][1]) \o "s",
                            "poll"))
             /\ UNCHANGED queried
        ELSE /\ queried' = [queried EXCEPT ![r] = Append(@, nextId - 1)]
             /\ pc' = [pc EXCEPT ![r] = "history"]
             /\ UNCHANGED <<response, exc, callbacks, task>>
  /\ UNCHANGED <<config, calls, now, req, seed, workflow, prompt_id, timeout, start_time,
                 history, cursor, wake, spawned, posted, viewed, nextId, answer, disk>>

\* Top of the loop of wait_for_completion: the deadline test, then the GET of
\* /history/{prompt_id} is sent.
wait_for_completion_check(r) ==
  /\ pc[r] = "poll"
  /\ LET elapsed == now - start_time[r][1]
     IN IF DeadlineExceeded(elapsed, timeout[r][1])
        THEN /\ Raise(r, HTTPException(504,
                            "Generation timeout after " \o ToString(timeout[r][1]) \o "s",
                            "poll"))
             /\ UNCHANGED queried
        ELSE /\ queried' = [queried EXCEPT ![r] = Append(@, prompt_id[r][1])]
             /\ pc' = [pc EXCEPT ![r] = "history"]
             /\ UNCHANGED <<response, exc, callbacks, task>>
  /\ UNCHANGED <<config, calls, now, req, seed, workflow, prompt_id, timeout, start_time,
                 history, cursor, wake, spawned, posted, viewed, nextId, answer, disk>>

\* The engine's answers to GET /history/{id}: 200 with the id in the body (and
\* its record), 200 without it, another status, or the call raises.
HistoryAnswers ==
  [status_code : {200}, present : {TRUE}, record : Histories]
    \cup {[status_code |-> 200, present |-> FALSE, record |-> NoHistory],
          [status_code |-> 500, present |-> FALSE, record |-> NoHistory],
          [status_code |-> 0, present |-> FALSE, record |-> NoHistory]}

\* Variant: a record without images is taken as not finished yet, the loop
\* sleeps and asks again.
wait_for_completion_answer_requery(r) ==
  /\ pc[r] = "history"
  /\ \E a \in HistoryAnswers :
       /\ answer' = [answer EXCEPT ![r] = Answer("/history", a.status_code, a.present)]
       /\ IF a.status_code = 0
          THEN /\ Raise(r, OtherException("All connection attempts failed", "poll"))
               /\ UNCHANGED <<history, cursor, wake, viewed>>
          ELSE IF a.status_code = 200 /\ a.present
          THEN /\ history' = [history EXCEPT ![r] = a.record]
               /\ LET images == ImagesOf(Outputs(a.record))
                  IN IF images = <<>>
                     THEN /\ wake' = [wake EXCEPT ![r] = now + 1]
                          /\ pc' = [pc EXCEPT ![r] = "sleep"]
                          /\ UNCHANGED <<cursor, viewed, response, exc, callbacks, task>>
                     ELSE /\ cursor' = [cursor EXCEPT ![r] = 1]
                          /\ viewed' = [viewed EXCEPT ![r] = Append(@, images[1].filename)]
                          /\ pc' = [pc EXCEPT ![r] = "view"]
                          /\ UNCHANGED <<response, exc, callbacks, task, wake>>
          ELSE /\ wake' = [wake EXCEPT ![r] = now + 1]
               /\ pc' = [pc EXCEPT ![r] = "sleep"]
               /\ UNCHANGED <<history, cursor, viewed, response, exc, callbacks, task>>
  /\ UNCHANGED <<config, calls, now, req, seed, workflow, prompt_id, timeout, start_time,
                 spawned, posted, queried, nextId, disk>>

\* Variant: a response with another status than 200 is raised as an error
\* (response.raise_for_status()) instead of being slept over.
wait_for_completion_answer_strict(r) ==
  /\ pc[r] = "history"
  /\ \E a \in HistoryAnswers :
       /\ answer' = [answer EXCEPT ![r] = Answer("/history", a.status_code, a.present)]
       /\ IF a.status_code = 0
          THEN /\ Raise(r, OtherException("All connection attempts failed", "poll"))
               /\ UNCHANGED <<history, cursor, wake, viewed>>
          ELSE IF a.status_code # 200
          THEN /\ Raise(r, OtherException("Server error '500 Internal Server Error'",
                                          "poll"))
               /\ UNCHANGED <<history, cursor, wake, viewed>>
          ELSE IF a.present
          THEN /\ history' = [history EXCEPT ![r] = a.record]
               /\ LET images == ImagesOf(Outputs(a.record))
                  IN IF images = <<>>
                     THEN /\ Raise(r, HTTPException(500, "No image found in output",
                                                    "fetch"))
                          /\ UNCHANGED <<cursor, viewed>>
                     ELSE /\ cursor' = [cursor EXCEPT ![r] = 1]
                          /\ viewed' = [viewed EXCEPT ![r] = Append(@, images[1].filename)]
                          /\ pc' = [pc EXCEPT ![r] = "view"]
                          /\ UNCHANGED <<response, exc, callbacks, task>>
               /\ UNCHANGED wake
          ELSE /\ wake' = [wake EXCEPT ![r] = now + 1]
               /\ pc' = [pc EXCEPT ![r] = "sleep"]
               /\ UNCHANGED <<history, cursor, viewed, response, exc, callbacks, task>>
  /\ UNCHANGED <<config, calls, now, req, seed, workflow, prompt_id, timeout, start_time,
                 spawned, posted, queried, nextId, disk>>

\* The rest of the loop body once the GET was answered: return the record (and
\* get_generated_image runs up to its first GET of /view), or go to sleep.
wait_for_completion_answer(r) ==
  /\ pc[r] = "history"
  /\ \E a \in HistoryAnswers :
       /\ answer' = [answer EXCEPT ![r] = Answer("/history", a.status_code, a.present)]
       /\ IF a.status_code = 0
          THEN /\ Raise(r, OtherException("All connection attempts failed", "poll"))
               /\ UNCHANGED <<history, cursor, wake, viewed>>
          ELSE IF a.status_code = 200 /\ a.present
          THEN /\ history' = [history EXCEPT ![r] = a.record]
               /\ LET images == ImagesOf(Outputs(a.record))
                  IN IF images = <<>>
                     THEN /\ Raise(r, HTTPException(500, "No image found in output",
                                                    "fetch"))
                          /\ UNCHANGED <<cursor, viewed>>
                     ELSE /\ cursor' = [cursor EXCEPT ![r] = 1]
                          /\ viewed' = [viewed EXCEPT ![r] = Append(@, images[1].filename)]
                          /\ pc' = [pc EXCEPT ![r] = "view"]
                          /\ UNCHANGED <<response, exc, callbacks, task>>
               /\ UNCHANGED wake
          ELSE /\ wake' = [wake EXCEPT ![r] = now + 1]
               /\ pc' = [pc EXCEPT ![r] = "sleep"]
               /\ UNCHANGED <<history, cursor, viewed, response, exc, callbacks, task>>
  /\ UNCHANGED <<config, calls, now, req, seed, workflow, prompt_id, timeout, start_time,
                 spawned, posted, queried, nextId, disk>>

\* Variant: a sleep that is not resumed in the second it is due is never resumed.
sleep_returns_punctual(r) ==
  /\ pc[r] = "sleep"
  /\ now = wake[r]
  /\ pc' = [pc EXCEPT ![r] = "poll"]
  /\ UNCHANGED <<config, calls, now, req, seed, workflow, prompt_id, timeout, start_time,
                 history, cursor, wake, response, spawned, task, exc, callbacks,
                 engine, disk>>

\* asyncio.sleep(1) returns: not before it is due.
sleep_returns(r) ==
  /\ pc[r] = "sleep"
  /\ now >= wake[r]
  /\ pc' = [pc EXCEPT ![r] = "poll"]
  /\ UNCHANGED <<config, calls, now, req, seed, workflow, prompt_id, timeout, start_time,
                 history, cursor, wake, response, spawned, task, exc, callbacks,
                 engine, disk>>

\* A second passes.  Time is followed only while some coroutine sleeps, and a
\* sleeper is resumed at most MaxDelay seconds late.
Tick ==
  /\ \E r \in Reqs : pc[r] = "sleep"
  /\ \A r \in Reqs : pc[r] = "sleep" => now < wake[r] + MaxDelay
  /\ now' = now + 1
  /\ UNCHANGED <<config, calls, pc, req, seed, workflow, prompt_id, timeout, start_time,
                 history, cursor, wake, response, spawned, task, exc, callbacks,
                 engine, disk>>

\* ------------------------------------------------------ fetch and persist
\* The engine's answers to GET /view: 200 with the bytes, another status, or
\* the call raises.
ViewAnswers == {200, 404, 0}

\* How `with open(filepath, "wb") as f: f.write(image_data)` ends: the bytes are
\* written, open raises (no file), or the write raises (the file is left behind
\* without the bytes).
WriteAnswers == {"written", "open fails", "write fails"}

\* What is left of a file whose write raised.
Truncated == ""

\* One write into OUTPUT_DIR by request r.
File(filename, data, r) == [filename |-> filename, data |-> data, by |-> r]

\* get_generated_image once a GET of /view was answered.  On 200 the handler
\* goes on without an await: save_and_hash_image, then the response
\* (generate_image) or the POST of callback_data (process_async_generation).
\* On another status the loops go on to the next image entry.
get_generated_image(r) ==
  /\ pc[r] = "view"
  /\ \E a \in ViewAnswers, w \in WriteAnswers, suffix \in Suffixes :
       LET images == ImagesOf(Outputs(history[r]))
           image_info == images[cursor[r]]
           image_data == Content(image_info.filename)
           saved == save_and_hash_image(image_data,
                                        [prompt |-> req[r].prompt, seed |-> seed[r][1],
                                         persona_id |-> req[r].persona_id,
                                         user_id |-> req[r].user_id],
                                        suffix)
       IN
       /\ answer' = [answer EXCEPT ![r] = Answer("/view", a, a = 200)]
       /\ IF a = 0
          THEN /\ Raise(r, OtherException("All connection attempts failed", "fetch"))
               /\ UNCHANGED <<cursor, viewed, disk>>
          ELSE IF a # 200
          THEN IF cursor[r] < Len(images)
               THEN /\ cursor' = [cursor EXCEPT ![r] = @ + 1]
                    /\ viewed' = [viewed EXCEPT ![r] =
                                    Append(@, images[cursor[r] + 1].filename)]
                    /\ UNCHANGED <<pc, response, exc, callbacks, task, disk>>
               ELSE /\ Raise(r, HTTPException(500, "No image found in output", "fetch"))
                    /\ UNCHANGED <<cursor, viewed, disk>>
          ELSE IF w = "open fails"
          THEN /\ Raise(r, OtherException("[Errno 13] Permission denied", "persist"))
               /\ UNCHANGED <<cursor, viewed, disk>>
          ELSE IF w = "write fails"
          THEN /\ store' = Append(store, File(saved.filename, Truncated, r))
               /\ Raise(r, OtherException("[Errno 28] No space left on device", "persist"))
               /\ UNCHANGED <<cursor, viewed, auditLog>>
          ELSE /\ store' = Append(store, File(saved.filename, image_data, r))
               /\ auditLog' = Append(auditLog, [entry |-> saved.audit_entry, by |-> r])
               /\ IF req[r].endpoint = "generate"
                  THEN /\ response' =
                            [response EXCEPT ![r] =
                               GenerateResponse(TRUE, Some("/images/" \o saved.filename),
                                                Some(saved.image_hash), seed[r], None)]
                       /\ pc' = [pc EXCEPT ![r] = "done"]
                       /\ UNCHANGED callbacks
                  ELSE /\ callbacks' =
                            [callbacks EXCEPT ![r] =
                               Append(@, Post(req[r].callback_url,
                                              SuccessPayload(r, saved.filename,
                                                             saved.image_hash,
                                                             seed[r][1])))]
                       /\ pc' = [pc EXCEPT ![r] = "callback"]
                       /\ UNCHANGED response
               /\ UNCHANGED <<cursor, viewed, exc, task>>
  /\ UNCHANGED <<config, calls, now, req, seed, workflow, prompt_id, timeout, start_time,
                 history, wake, spawned, posted, queried, nextId>>

\* ----------------------------------------------------------------- callback
\* How a POST to callback_url ends: answered (whatever the status), or raises.
CallbackAnswers == {"answered", "raised"}

\* The POST of callback_data ended.  It is inside the try block: if it raises,
\* the except clause runs and posts error_data.
callback_completed(r) ==
  /\ pc[r] = "callback"
  /\ \E a \in CallbackAnswers :
       IF a = "raised"
       THEN AsyncRaise(r, OtherException("callback not delivered", "callback"))
       ELSE /\ callbacks' = [callbacks EXCEPT ![r] = Settle(@, "answered")]
            /\ task' = [task EXCEPT ![r] = "returned"]
            /\ pc' = [pc EXCEPT ![r] = "done"]
            /\ UNCHANGED <<response, exc>>
  /\ UNCHANGED <<config, calls, now, req, seed, workflow, prompt_id, timeout, start_time,
                 history, cursor, wake, spawned, engine, disk>>

\* Variant: the POST of error_data is not guarded, its exception leaves the task.
callback_error_unguarded(r) ==
  /\ pc[r] = "callback_error"
  /\ \E a \in CallbackAnswers :
       /\ callbacks' = [callbacks EXCEPT ![r] = Settle(@, a)]
       /\ task' = [task EXCEPT ![r] = IF a = "raised" THEN "raised" ELSE "returned"]
  /\ pc' = [pc EXCEPT ![r] = "done"]
  /\ UNCHANGED <<config, calls, now, req, seed, workflow, prompt_id, timeout, start_time,
                 history, cursor, wake, response, spawned, exc, engine, disk>>

\* The POST of error_data ended.  It has its own try / bare except: pass.
callback_error(r) ==
  /\ pc[r] = "callback_error"
  /\ \E a \in CallbackAnswers :
       callbacks' = [callbacks EXCEPT ![r] = Settle(@, a)]
  /\ task' = [task EXCEPT ![r] = "returned"]
  /\ pc' = [pc EXCEPT ![r] = "done"]
  /\ UNCHANGED <<config, calls, now, req, seed, workflow, prompt_id, timeout, start_time,
                 history, cursor, wake, response, spawned, exc, engine, disk>>

\* ------------------------------------------------------------ specification
Next ==
  \/ \E r \in clients : generate_image(r)
  \/ \E r \in clients : generate_image_async(r)
  \/ \E r \in clients : process_async_generation(r)
  \/ \E r \in clients : queue_prompt(r)
  \/ \E r \in clients : wait_for_completion_check(r)
  \/ \E r \in clients : wait_for_completion_answer(r)
  \/ \E r \in clients : sleep_returns(r)
  \/ Tick
  \/ \E r \in clients : get_generated_image(r)
  \/ \E r \in clients : callback_completed(r)
  \/ \E r \in clients : callback_error(r)

Spec == Init /\ [][Next]_vars

\* What the coroutine of request r does once the request was received.  Every
\* await of the pipeline ends (the calls have timeouts, the sleep is due after a
\* second) and the event loop then resumes the coroutine.
Pipeline(r) ==
  \/ process_async_generation(r)
  \/ queue_prompt(r)
  \/ wait_for_completion_check(r)
  \/ wait_for_completion_answer(r)
  \/ sleep_returns(r)
  \/ get_generated_image(r)
  \/ callback_completed(r)
  \/ callback_error(r)

FairSpec == Spec /\ WF_vars(Tick) /\ \A r \in Reqs : WF_vars(Pipeline(r))

\* ------------------------------------------------------ the batch driver
\* scripts/generate-persona-images.py.  PERSONAS: of a persona, build_image_variations
\* reads fashion_style only (the persona is passed through into each variation).
PERSONAS ==
  ("scarlett" :> [name |-> "Scarlett", fashion_style |-> "sexy"])
  @@ ("emma" :> [name |-> "Emma", fashion_style |-> "cute"])
  @@ ("victoria" :> [name |-> "Victoria", fashion_style |-> "elegant"])
  @@ ("lily" :> [name |-> "Lily", fashion_style |-> "casual"])
  @@ ("isabella" :> [name |-> "Isabella", fashion_style |-> "sexy"])
  @@ ("maya" :> [name |-> "Maya", fashion_style |-> "trendy"])
  @@ ("kira" :> [name |-> "Kira", fashion_style |-> "fantasy"])
  @@ ("marcus" :> [name |-> "Marcus", fashion_style |-> "casual"])
  @@ ("ryan" :> [name |-> "Ryan", fashion_style |-> "edgy"])
  @@ ("alexander" :> [name |-> "Alexander", fashion_style |-> "elegant"])
  @@ ("ethan" :> [name |-> "Ethan", fashion_style |-> "casual"])
  @@ ("damien" :> [name |-> "Damien", fashion_style |-> "elegant"])
  @@ ("lucian" :> [name |-> "Lucian", fashion_style |-> "fantasy"])

\* A persona whose fashion_style has no entry in OUTFITS.
P_sporty == [name |-> "Sky", fashion_style |-> "sporty"]

\* SCENARIOS in the order of the dict: name and weight (prompt_add is passed through).
SCENARIOS ==
  << [name |-> "morning", weight |-> 10],
     [name |-> "coffee", weight |-> 8],
     [name |-> "casual_home", weight |-> 10],
     [name |-> "selfie", weight |-> 15],
     [name |-> "bedroom_romantic", weight |-> 10],
     [name |-> "evening_dress", weight |-> 8],
     [name |-> "flirty", weight |-> 10],
     [name |-> "workout", weight |-> 5],
     [name |-> "beach", weight |-> 5],
     [name |-> "night_out", weight |-> 5],
     [name |-> "relaxed_evening", weight |-> 8],
     [name |-> "professional", weight |-> 3],
     [name |-> "date_night", weight |-> 5] >>

OUTFITS ==
  ("sexy" :>
       << "wearing tight dress",
          "wearing lingerie",
          "wearing crop top and shorts",
          "wearing bodycon dress",
          "wearing silk robe",
          "wearing off-shoulder top",
          "wearing mini skirt",
          "wearing form-fitting dress" >>)
  @@ ("cute" :>
       << "wearing oversized sweater",
          "wearing cute pajamas",
          "wearing sundress",
          "wearing casual dress",
          "wearing hoodie",
          "wearing school-style outfit",
          "wearing pastel colors",
          "wearing cute loungewear" >>)
  @@ ("elegant" :>
       << "wearing tailored suit",
          "wearing elegant blouse",
          "wearing business dress",
          "wearing designer clothes",
          "wearing silk shirt",
          "wearing formal attire",
          "wearing high fashion",
          "wearing sophisticated outfit" >>)
  @@ ("casual" :>
       << "wearing jeans and t-shirt",
          "wearing casual dress",
          "wearing comfortable clothes",
          "wearing hoodie and jeans",
          "wearing sweater",
          "wearing casual summer outfit",
          "wearing relaxed fit clothes",
          "wearing weekend casual" >>)
  @@ ("trendy" :>
       << "wearing streetwear",
          "wearing trendy outfit",
          "wearing fashionable clothes",
          "wearing designer streetwear",
          "wearing modern fashion",
          "wearing stylish outfit",
          "wearing Instagram fashion",
          "wearing influencer style" >>)
  @@ ("edgy" :>
       << "wearing leather jacket",
          "wearing band t-shirt",
          "wearing ripped jeans",
          "wearing all black outfit",
          "wearing punk style",
          "wearing rock aesthetic",
          "wearing dark clothes",
          "wearing biker style" >>)
  @@ ("fantasy" :>
       << "wearing dark elegant robes",
          "wearing gothic outfit",
          "wearing fantasy costume",
          "wearing dark lingerie",
          "wearing mystical clothing",
          "wearing supernatural attire",
          "wearing dark romantic outfit",
          "wearing otherworldly fashion" >>)

EXPRESSIONS ==
  << "smiling warmly",
     "seductive look",
     "playful expression",
     "confident smile",
     "soft gentle expression",
     "intense gaze",
     "laughing naturally",
     "flirty smile",
     "mysterious look",
     "loving expression" >>

\* OUTFITS.get(fashion_style, OUTFITS["casual"])
OutfitsOf(persona) ==
  IF persona.fashion_style \in DOMAIN OUTFITS THEN OUTFITS[persona.fashion_style]
  ELSE OUTFITS["casual"]

RECURSIVE SumWeights(_)
\* sum(s["weight"] for s in the first k scenarios)
SumWeights(k) == IF k = 0 THEN 0 ELSE SumWeights(k - 1) + SCENARIOS[k].weight

total_weight == SumWeights(Len(SCENARIOS))

\* int(x) for x = n / d with d > 0: truncation towards zero.
IntOf(n, d) == IF n >= 0 THEN n \div d ELSE -((-n) \div d)

\* int((weight / total_weight) * count).  The float product is truncated to the
\* same integer as the exact quotient for every count followed here.
ScenarioCount(weight, count) == IntOf(weight * count, total_weight)

\* Index of the "selfie" entry of SCENARIOS.
Selfie == CHOOSE k \in 1..Len(SCENARIOS) : SCENARIOS[k].name = "selfie"

\* One variation dict.
Variation(persona_id, persona, k, image_num) ==
  LET outfits == OutfitsOf(persona)
  IN [persona_id |-> persona_id,
      persona |-> persona,
      scenario |-> SCENARIOS[k].name,
      scenario_data |-> SCENARIOS[k],
      outfit |-> outfits[(image_num % Len(outfits)) + 1],
      expression |-> EXPRESSIONS[(image_num % Len(EXPRESSIONS)) + 1],
      image_number |-> image_num]

RECURSIVE ScenarioRange(_, _, _, _, _, _, _)
\* `for i in range(scenario_count)` of scenario k from i on, with its break.
ScenarioRange(persona_id, persona, count, k, i, variations, image_num) ==
  IF i >= ScenarioCount(SCENARIOS[k].weight, count) \/ image_num >= count
  THEN [variations |-> variations, image_num |-> image_num]
  ELSE ScenarioRange(persona_id, persona, count, k, i + 1,
                     Append(variations, Variation(persona_id, persona, k, image_num)),
                     image_num + 1)

RECURSIVE ScenarioLoop(_, _, _, _, _, _)
\* `for scenario_name, scenario_data in SCENARIOS.items()` from scenario k on.
ScenarioLoop(persona_id, persona, count, k, variations, image_num) ==
  IF k > Len(SCENARIOS) THEN [variations |-> variations, image_num |-> image_num]
  ELSE LET s == ScenarioRange(persona_id, persona, count, k, 0, variations, image_num)
       IN ScenarioLoop(persona_id, persona, count, k + 1, s.variations, s.image_num)

RECURSIVE FillLoop(_, _, _, _, _)
\* `while image_num < count`: the rest are selfies.
FillLoop(persona_id, persona, count, variations, image_num) ==
  IF image_num >= count THEN variations
  ELSE FillLoop(persona_id, persona, count,
                Append(variations, Variation(persona_id, persona, Selfie, image_num)),
                image_num + 1)

\* Variant: no fill loop, the weighted shares are all there is.
build_image_variations_sharesonly(persona_id, persona, count) ==
  ScenarioLoop(persona_id, persona, count, 1, <<>>, 0).variations

build_image_variations(persona_id, persona, count) ==
  LET s == ScenarioLoop(persona_id, persona, count, 1, <<>>, 0)
  IN FillLoop(persona_id, persona, count, s.variations, s.image_num)

\* The counts build_image_variations is called with: the small ones, the
\* default of IMAGES_PER_PERSONA, and the sum of the weights (where the shares
\* leave no rest).
IMAGES_PER_PERSONA == 100

Counts == (-1..MaxCount) \cup {IMAGES_PER_PERSONA, total_weight}

\* The personas it is called with, by id.
PersonaInputs ==
  {<<id, PERSONAS[id]>> : id \in DOMAIN PERSONAS} \cup {<<"sky", P_sporty>>}

\* build_image_variations(persona_id, persona, count) is called.
call_build_image_variations ==
  /\ calls = <<>>
  /\ \E p \in PersonaInputs, count \in Counts :
       calls' = Append(calls, [fn |-> "build_image_variations", persona_id |-> p[1],
                               persona |-> p[2], count |-> count,
                               result |-> build_image_variations(p[1], p[2], count)])
  /\ UNCHANGED <<config, now, pc, req, seed, workflow, prompt_id, timeout, start_time,
                 history, cursor, wake, response, spawned, task, exc, callbacks,
                 engine, disk>>

VariationsNext == call_build_image_variations

VariationsSpec == Init /\ [][VariationsNext]_vars

\* --------------------------------------------------- two requests at once
\* The second client's request: another seed, and on the asynchronous endpoint
\* another request_id.
SecondRequests ==
  {[BaseRequest("generate") EXCEPT !.seed = None],
   WithCallback([BaseRequest("generate-async") EXCEPT !.seed = None], "def456")}

\* The part of the inputs followed when two requests are in the process at the
\* same time: the base request and the second client's, a deadline of one
\* second, one record with one image, and of the answers of the engine and of
\* the callback URL the refused submission, the record not there yet, the image
\* not served, and the callback answered.
ConcScope ==
  /\ req[1] \in {NoRequest, BaseRequest("generate"),
                  WithCallback(BaseRequest("generate-async"), "abc123")}
  /\ req[2] \in {NoRequest} \cup SecondRequests
  /\ \A r \in Reqs :
       /\ seed[r] \in {None, Some(Num(0, 5)), Some(Num(0, 7))}
       /\ timeout[r] \in {None, Some(1)}
       /\ history[r] \in {NoHistory,
                          [outputs |-> Some(<< <<"9", NodeOut(Some(<<Img("a.png")>>))>> >>)]}
       /\ answer[r].path # "none" => answer[r].status_code \in {200, 404, 500}
       /\ exc[r].at \notin {"persist", "callback"}
       /\ \A i \in 1..Len(callbacks[r]) : callbacks[r][i].result # "raised"
  /\ \A i \in 1..Len(store) : store[i].data # Truncated

\* Both requests arrive, the filter is on.
ConcInit == Boot /\ ENABLE_SAFETY /\ clients = Reqs

ConcNext ==
  \/ \E r \in clients : generate_image(r) /\ ConcScope'
  \/ \E r \in clients : generate_image_async(r) /\ ConcScope'
  \/ \E r \in clients : process_async_generation(r) /\ ConcScope'
  \/ \E r \in clients : queue_prompt(r) /\ ConcScope'
  \/ \E r \in clients : wait_for_completion_check(r) /\ ConcScope'
  \/ \E r \in clients : wait_for_completion_answer(r) /\ ConcScope'
  \/ \E r \in clients : sleep_returns(r) /\ ConcScope'
  \/ Tick
  \/ \E r \in clients : get_generated_image(r) /\ ConcScope'
  \/ \E r \in clients : callback_completed(r) /\ ConcScope'
  \/ \E r \in clients : callback_error(r) /\ ConcScope'

ConcSpec == ConcInit /\ [][ConcNext]_vars

\* ------------------------------------------- the functions called directly
\* The functions of the module are also followed on their own: `calls` holds
\* the arguments given to a function and what it returned.
RECURSIVE Spaced(_)
\* " ".join(words), as tokens.
Spaced(words) ==
  IF Len(words) <= 1 THEN words ELSE <<Head(words), " ">> \o Spaced(Tail(words))

FilterWords == {"Taylor", "swift", "Teen", "actress"}

\* Prompts of up to MaxWords words.
FilterTexts ==
  {Spaced(ws) : ws \in UNION {[1..n -> FilterWords] : n \in 0..MaxWords}}

\* validate_prompt(prompt) is called, up to twice in a run.
call_validate_prompt ==
  /\ Len(calls) < 2
  /\ \E t \in FilterTexts :
       calls' = Append(calls, [fn |-> "validate_prompt", prompt |-> t,
                               result |-> validate_prompt(t)])
  /\ UNCHANGED <<config, now, pc, req, seed, workflow, prompt_id, timeout, start_time,
                 history, cursor, wake, response, spawned, task, exc, callbacks,
                 engine, disk>>

FilterNext == call_validate_prompt

FilterSpec == Init /\ [][FilterNext]_vars

NegativeTokens == {" ", ",", "blurry"}

\* req.negative_prompt: absent, or a text of up to MaxNegative tokens (the empty
\* one and those of whitespace only among them).
NegativeInputs ==
  {None} \cup {Some(t) : t \in UNION {[1..n -> NegativeTokens] : n \in 0..MaxNegative}}

\* build_safe_prompt(req.prompt, req.negative_prompt or "") is called.
call_build_safe_prompt ==
  /\ calls = <<>>
  /\ \E p \in {P_mountain, P_teen}, n \in NegativeInputs :
       calls' = Append(calls, [fn |-> "build_safe_prompt", prompt |-> p,
                               negative_prompt |-> n,
                               result |-> build_safe_prompt(p, NegativeOrEmpty(n))])
  /\ UNCHANGED <<config, now, pc, req, seed, workflow, prompt_id, timeout, start_time,
                 history, cursor, wake, response, spawned, task, exc, callbacks,
                 engine, disk>>

ComposeNext == call_build_safe_prompt

ComposeSpec == Init /\ [][ComposeNext]_vars

\* Arguments build_comfyui_workflow is called with.
BuildArgs ==
  [prompt : {<<"sunset">>, <<"mountain", " ", "lake">>},
   negative_prompt : {<<"blurry">>, <<",", " ", "blurry">>},
   seed : {Num(0, 5), Num(0, 7), Num(Limb - 1, Limb - 1)},
   steps : {20, DEFAULT_STEPS}, cfg : {DEFAULT_CFG, 7},
   width : {512, DEFAULT_WIDTH}, height : {DEFAULT_HEIGHT},
   model_name : {MODEL_NAME}]

\* build_comfyui_workflow(...) is called, up to twice in a run.
call_build_comfyui_workflow ==
  /\ Len(calls) < 2
  /\ \E a \in BuildArgs :
       calls' = Append(calls, [fn |-> "build_comfyui_workflow", args |-> a,
                               result |-> build_comfyui_workflow(
                                            a.prompt, a.negative_prompt, a.seed, a.steps,
                                            a.cfg, a.width, a.height, a.model_name)])
  /\ UNCHANGED <<config, now, pc, req, seed, workflow, prompt_id, timeout, start_time,
                 history, cursor, wake, response, spawned, task, exc, callbacks,
                 engine, disk>>

BuildNext == call_build_comfyui_workflow

BuildSpec == Init /\ [][BuildNext]_vars

\* The metadata dict the handlers build for save_and_hash_image.
Metadatas ==
  [prompt : {P_mountain, P_taylor}, seed : {Num(0, 5)},
   persona_id : {Some("persona-1")}, user_id : {Some("user-1"), None}]

\* save_and_hash_image(image_data, metadata) is called, by whichever pipeline
\* got its image: the function has no await, so the calls of concurrent
\* pipelines happen one after the other, in any order.
call_save_and_hash_image ==
  /\ Len(calls) < MaxSaves
  /\ \E f \in {"a.png", "b.png"}, metadata \in Metadatas, suffix \in Suffixes,
        w \in WriteAnswers :
       LET image_data == Content(f)
           saved == save_and_hash_image(image_data, metadata, suffix)
           n == Len(calls) + 1
       IN /\ calls' = Append(calls, [fn |-> "save_and_hash_image",
                                     image_data |-> image_data, metadata |-> metadata,
                                     filename |-> saved.filename,
                                     image_hash |-> saved.image_hash, outcome |-> w])
          /\ IF w = "open fails"
             THEN UNCHANGED disk
             ELSE IF w = "write fails"
             THEN /\ store' = Append(store, File(saved.filename, Truncated, n))
                  /\ UNCHANGED auditLog
             ELSE /\ store' = Append(store, File(saved.filename, image_data, n))
                  /\ auditLog' = Append(auditLog, [entry |-> saved.audit_entry, by |-> n])
  /\ UNCHANGED <<config, now, pc, req, seed, workflow, prompt_id, timeout, start_time,
                 history, cursor, wake, response, spawned, task, exc, callbacks, engine>>

PersistNext == call_save_and_hash_image

PersistSpec == Init /\ [][PersistNext]_vars

\* ------------------------------------------------------------- properties
Received(r) == req[r] # NoRequest

IsSync(r) == Received(r) /\ req[r].endpoint = "generate"

IsAsync(r) == Received(r) /\ req[r].endpoint = "generate-async"

\* The categories (by position in BLOCKED_PATTERNS) whose pattern is found in
\* the text.
Matching(text) ==
  {i \in 1..Len(BLOCKED_PATTERNS) : Search(BLOCKED_PATTERNS[i].alternatives, Lower(text))}

\* The prompts of requests, and those given directly to validate_prompt, with
\* the categories each matches.
MatchingOf == [t \in Prompts \cup FilterTexts |-> Matching(t)]

\* The safety filter rejects the prompt of request r.
Rejects(r) == Received(r) /\ ENABLE_SAFETY /\ MatchingOf[req[r].prompt] # {}

\* Request r left a file in the store, whole or not.
WroteBy(r) == \E i \in 1..Len(store) : store[i].by = r

\* Request r wrote its image into the store.
StoredBy(r) == \E i \in 1..Len(store) : store[i].by = r /\ store[i].data # Truncated

AuditedBy(r) == \E i \in 1..Len(auditLog) : auditLog[i].by = r

\* The poll loop of request r reported TimedOut.
TimedOut(r) == exc[r].at = "poll" /\ exc[r].type = "HTTPException" /\ exc[r].status_code = 504

TimeoutDetail(r) == "Generation timeout after " \o ToString(timeout[r][1]) \o "s"

\* A message that tells the caller of request r about the timeout.
IndicatesTimeout(r, msg) == msg \in {TimeoutDetail(r), "504: " \o TimeoutDetail(r)}

Acknowledgment(r) ==
  [kind |-> "AsyncQueuedResponse", status |-> "queued",
   request_id |-> req[r].request_id,
   message |-> "Image generation started in background"]

\* C1: on both entry points, a request whose prompt the safety filter rejects
\* is answered with a client-visible rejection (HTTP 400), and for it no graph
\* is submitted, no status query or artifact fetch is issued, nothing is stored
\* or audited, no background task is added and no callback is posted.
C1_RejectedStopsEverything ==
  \A r \in Reqs :
    Rejects(r) =>
      /\ response[r].kind = "HTTPError"
      /\ response[r].status_code = 400
      /\ posted[r] = <<>>
      /\ queried[r] = <<>>
      /\ viewed[r] = <<>>
      /\ ~WroteBy(r)
      /\ ~AuditedBy(r)
      /\ ~spawned[r]
      /\ task[r] = "none"
      /\ callbacks[r] = <<>>

C1_Witness ==
  \E r \in Reqs :
    /\ IsAsync(r)
    /\ req[r].prompt = P_taylor
    /\ Rejects(r)
    /\ pc[r] = "done"
    /\ response[r] = HTTPError(400, "Prompt rejected: celebrities content not allowed")

\* C2: for every accepted asynchronous request at most one POST is ever made
\* to its callback_url, whatever the outcome of the pipeline and of the delivery.
C2_AtMostOnePost == \A r \in Reqs : Len(callbacks[r]) <= 1

\* C3 as stated: after a timeout of the poll loop the synchronous path returns
\* an in-band result with success false whose message indicates the timeout, and
\* the asynchronous path posts a "failed" callback whose error indicates it.
C3_TimeoutInBand ==
  \A r \in Reqs :
    (TimedOut(r) /\ pc[r] = "done") =>
      IF IsSync(r)
      THEN /\ response[r].kind = "GenerateResponse"
           /\ response[r].success = FALSE
           /\ response[r].error # None
           /\ IndicatesTimeout(r, response[r].error[1])
      ELSE \E i \in 1..Len(callbacks[r]) :
             /\ callbacks[r][i].payload.status = "failed"
             /\ IndicatesTimeout(r, callbacks[r][i].payload.error)

\* C3 amended: after a timeout of the poll loop the synchronous path fails
\* with a transport-level HTTP 504 error whose detail indicates the timeout (no
\* in-band result), and the asynchronous path posts exactly one callback, with
\* status "failed" and an error that indicates the timeout.
C3_TimeoutReported ==
  \A r \in Reqs :
    TimedOut(r) =>
      IF IsSync(r)
      THEN response[r] = HTTPError(504, TimeoutDetail(r))
      ELSE /\ Len(callbacks[r]) = 1
           /\ callbacks[r][1].payload.status = "failed"
           /\ callbacks[r][1].payload.request_id = req[r].request_id
           /\ IndicatesTimeout(r, callbacks[r][1].payload.error)
           /\ response[r] = Acknowledgment(r)

C3_Witness ==
  \E r \in Reqs :
    /\ IsSync(r)
    /\ TimedOut(r)
    /\ Len(queried[r]) >= 2
    /\ response[r].kind = "HTTPError"
    /\ response[r].status_code = 504

C5_NoEarlyTimeout ==
  \A r \in Reqs : TimedOut(r) => now - start_time[r][1] > timeout[r][1]

C5_Witness ==
  \E r \in Reqs :
    /\ TimedOut(r)
    /\ timeout[r][1] > 0
    /\ now - start_time[r][1] = timeout[r][1] + 1

\* C6: an asynchronous request that passes the safety filter is answered with
\* the acknowledgment (status "queued", the request's own request_id) and with
\* nothing else: the answer is there before the graph is submitted, it never
\* changes, and it carries no image reference, hash, seed or error.
C6_AsyncAcknowledged ==
  \A r \in Reqs :
    (IsAsync(r) /\ ~Rejects(r)) =>
      /\ response[r].kind = "AsyncQueuedResponse"
      /\ response[r].status = "queued"
      /\ response[r].request_id = req[r].request_id
      /\ DOMAIN response[r] \cap {"success", "image_url", "image_hash", "seed_used",
                                  "error", "detail"} = {}

C6_Witness ==
  \E r \in Reqs :
    /\ IsAsync(r)
    /\ pc[r] = "done"
    /\ StoredBy(r)
    /\ posted[r] # <<>>
    /\ response[r] = Acknowledgment(r)

\* C7: every accepted asynchronous request eventually leads to a POST to its
\* callback_url that carries its request_id and a terminal status: "completed"
\* when the artifact was produced and stored, "failed" when the submission, the
\* polling (timeout included), the fetch or the write failed.
C7_CallbackEventually ==
  \A r \in Reqs :
    spawned[r] ~>
      /\ callbacks[r] # <<>>
      /\ callbacks[r][1].url = req[r].callback_url
      /\ callbacks[r][1].payload.request_id = req[r].request_id
      /\ callbacks[r][1].payload.status = (IF StoredBy(r) THEN "completed" ELSE "failed")

C7_Witness ==
  \E r \in Reqs :
    /\ spawned[r]
    /\ task[r] = "returned"
    /\ ~StoredBy(r)
    /\ exc[r].at = "fetch"
    /\ Len(callbacks[r]) = 1
    /\ callbacks[r][1].payload.status = "failed"
    /\ callbacks[r][1].payload.request_id = "abc123"

\* C8: a callback that cannot be delivered (success or failure payload) is
\* swallowed: the background task ends by returning, never by an exception, and
\* the caller's answer stays the acknowledgment.
C8_DeliveryFailureSwallowed ==
  \A r \in Reqs :
    (\E i \in 1..Len(callbacks[r]) : callbacks[r][i].result = "raised") =>
      /\ task[r] # "raised"
      /\ pc[r] = "done" => task[r] = "returned"
      /\ response[r] = Acknowledgment(r)

C8_Witness ==
  \E r \in Reqs :
    /\ pc[r] = "done"
    /\ task[r] = "returned"
    /\ Len(callbacks[r]) = 1
    /\ callbacks[r][1].payload.status = "failed"
    /\ callbacks[r][1].result = "raised"

\* C9: the seed of a request is one value: the sampler node of the submitted
\* graph, the audit entry and the success response or success callback all
\* carry the handler's resolved seed.  A positive seed of the request is used as
\* given; an absent or non-positive one is replaced by a value in [0, 2^32).
C9_SeedStable ==
  \A r \in Reqs :
    seed[r] # None =>
      /\ \A i \in 1..Len(posted[r]) : posted[r][i]["3"].inputs.seed = seed[r][1]
      /\ \A i \in 1..Len(auditLog) :
           auditLog[i].by = r => auditLog[i].entry.seed = seed[r][1]
      /\ (response[r].kind = "GenerateResponse" /\ response[r].success) =>
           response[r].seed_used = seed[r]
      /\ \A i \in 1..Len(callbacks[r]) :
           callbacks[r][i].payload.status = "completed" =>
             callbacks[r][i].payload.seed_used = seed[r][1]
      /\ IF req[r].seed # None /\ IsPositive(req[r].seed[1])
         THEN seed[r] = req[r].seed
         ELSE InRange2_32(seed[r][1])

C9_Witness ==
  \E r \in Reqs :
    /\ IsSync(r)
    /\ req[r].seed = Some(Num(-1, Limb - 1))
    /\ seed[r] = Some(Num(Limb - 1, Limb - 1))
    /\ response[r].kind = "GenerateResponse"
    /\ response[r].success
    /\ AuditedBy(r)

\* C10: for steps, cfg_scale, width and height the value placed in the graph
\* is the request's value whenever the request supplies one, and the process
\* default exactly when the request leaves the field unset.
C10_ExplicitParamsOverride ==
  \A r \in Reqs :
    \A i \in 1..Len(posted[r]) :
      LET g == posted[r][i]
          Want(x, d) == IF x # None THEN x[1] ELSE d
      IN /\ g["3"].inputs.steps = Want(req[r].steps, DEFAULT_STEPS)
         /\ g["3"].inputs.cfg = Want(req[r].cfg_scale, DEFAULT_CFG)
         /\ g["5"].inputs.width = Want(req[r].width, DEFAULT_WIDTH)
         /\ g["5"].inputs.height = Want(req[r].height, DEFAULT_HEIGHT)

Rejection(category) ==
  [is_valid |-> FALSE, error |-> "Prompt rejected: " \o category \o " content not allowed"]

Allowed == [is_valid |-> TRUE, error |-> ""]

\* C11 (as stated): with the safety filter enabled, for every category C, every
\* text matching C's pattern is rejected with the name of C, and a text matching
\* no pattern is allowed.
C11_RejectedWithEveryMatchingCategory ==
  ENABLE_SAFETY =>
    \A n \in 1..Len(calls) :
      LET c == calls[n]
          found == MatchingOf[c.prompt]
      IN /\ \A i \in found : c.result = Rejection(BLOCKED_PATTERNS[i].category)
         /\ found = {} => c.result = Allowed

\* C11 (amended): with the safety filter enabled, a text matching at least one
\* pattern is rejected with the name of the earliest declared category whose
\* pattern it matches, and a text matching no pattern is allowed.
C11_RejectedWithEarliestCategory ==
  ENABLE_SAFETY =>
    \A n \in 1..Len(calls) :
      LET c == calls[n]
          found == MatchingOf[c.prompt]
      IN /\ \A i \in found :
              (\A j \in found : i <= j)
                => c.result = Rejection(BLOCKED_PATTERNS[i].category)
         /\ found = {} => c.result = Allowed

\* A prompt matching two categories (professions, age_down) was classified, and
\* so was one matching none.
C11_Witness ==
  /\ ENABLE_SAFETY
  /\ Len(calls) = 2
  /\ calls[1].prompt = <<"Teen", " ", "actress">>
  /\ calls[1].result = Rejection("professions")
  /\ calls[2].prompt = <<"swift", " ", "Taylor">>
  /\ calls[2].result = Allowed

\* C12: with the safety filter disabled no request is rejected, whatever its
\* prompt: a received request is never answered 400 and goes on as an allowed
\* one does, the synchronous one to the submission of its workflow, the
\* asynchronous one to its acknowledgment and background task.
C12_DisabledFilterAllowsAll ==
  ~ENABLE_SAFETY =>
    \A r \in Reqs :
      Received(r) =>
        /\ ~(response[r].kind = "HTTPError" /\ response[r].status_code = 400)
        /\ exc[r].at # "validate"
        /\ IsSync(r) => posted[r] = <<WorkflowFor(req[r], seed[r][1])>>
        /\ IsAsync(r) => spawned[r] /\ response[r] = Acknowledgment(r)
        /\ pc[r] = "done" =>
             \/ StoredBy(r)
             \/ exc[r].at \in {"submit", "poll", "fetch", "persist", "callback"}

\* With the filter disabled, a prompt naming a celebrity went through the whole
\* pipeline and its image was stored.
C12_Witness ==
  \E r \in Reqs :
    /\ ~ENABLE_SAFETY
    /\ Received(r)
    /\ req[r].prompt = P_taylor
    /\ MatchingOf[req[r].prompt] # {}
    /\ pc[r] = "done"
    /\ StoredBy(r)
    /\ AuditedBy(r)

\* The category (by position) that wins on a text matching some pattern.
Winner(text) == CHOOSE i \in MatchingOf[text] : \A j \in MatchingOf[text] : i <= j

\* The words of the rejection message for a category.
RejectionWords(category) ==
  <<"Prompt", " ", "rejected", ":", " ", category, " ", "content", " ", "not", " ",
    "allowed">>

\* For each category (by position), the text of its rejection message and the
\* categories whose pattern is found in that message.
MessageOf ==
  [i \in 1..Len(BLOCKED_PATTERNS) |->
     LET words == RejectionWords(BLOCKED_PATTERNS[i].category)
     IN [text |-> Join(words), matching |-> Matching(words)]]

\* C13: the rejection depends only on the name of the winning category: two
\* rejected prompts with the same first matching category get the same output,
\* which is the fixed message of that category and holds no word or phrase of
\* any pattern.
C13_RejectionNamesCategoryOnly ==
  ENABLE_SAFETY =>
    \A m, n \in 1..Len(calls) :
      LET a == calls[m]
          b == calls[n]
      IN (MatchingOf[a.prompt] # {} /\ MatchingOf[b.prompt] # {}
            /\ Winner(a.prompt) = Winner(b.prompt))
           => LET message == MessageOf[Winner(a.prompt)]
              IN /\ a.result = b.result
                 /\ ~a.result.is_valid
                 /\ a.result.error = message.text
                 /\ message.matching = {}

\* Two different prompts, matching different sets of categories with the same
\* first one, were both rejected.
C13_Witness ==
  /\ ENABLE_SAFETY
  /\ Len(calls) = 2
  /\ calls[1].prompt = <<"actress">>
  /\ calls[2].prompt = <<"Teen", " ", "actress">>
  /\ MatchingOf[calls[1].prompt] # MatchingOf[calls[2].prompt]
  /\ ~calls[1].result.is_valid
  /\ ~calls[2].result.is_valid

\* C14: two calls of save_and_hash_image with the same bytes give two different
\* filenames with the same hash prefix, and no two calls ever write the same
\* filename.
C14_FilenamesNeverRepeat ==
  /\ \A i, j \in 1..Len(calls) :
       (i # j /\ calls[i].image_data = calls[j].image_data) =>
         /\ calls[i].image_hash = calls[j].image_hash
         /\ calls[i].filename # calls[j].filename
  /\ \A i, j \in 1..Len(store) : i # j => store[i].filename # store[j].filename

\* The images written whole into the store.
Artifacts == {i \in 1..Len(store) : store[i].data # Truncated}

\* The audit entries logged for request r.
AuditsOf(r) == {i \in 1..Len(auditLog) : auditLog[i].by = r}

\* Request r was told (in its response or its callback) that its image exists.
Succeeded(r) ==
  \/ IsSync(r) /\ response[r].kind = "GenerateResponse" /\ response[r].success
  \/ IsAsync(r) /\ \E i \in 1..Len(callbacks[r]) :
                     callbacks[r][i].payload.status = "completed"

\* C15: there are as many audit entries as images written to the store; a
\* request has one entry when its generation succeeded and none when it failed
\* before or while its image was written; an entry holds a digest of the
\* prompt and not the prompt.
C15_AuditMatchesStore ==
  /\ Len(auditLog) = Cardinality(Artifacts)
  /\ \A r \in Reqs :
       /\ Cardinality(AuditsOf(r)) <= 1
       /\ Succeeded(r) => Cardinality(AuditsOf(r)) = 1
       /\ AuditedBy(r) <=> StoredBy(r)
       /\ exc[r].at \in {"validate", "submit", "poll", "fetch", "persist"}
            => AuditsOf(r) = {}
  /\ \A i \in 1..Len(auditLog) :
       LET e == auditLog[i].entry
           raw == Join(req[auditLog[i].by].prompt)
       IN /\ DOMAIN e = {"image_hash", "filename", "timestamp", "persona_id", "user_id",
                         "seed", "prompt_hash"}
          /\ e.prompt_hash = Sha16(raw)
          /\ \A f \in {"image_hash", "filename", "prompt_hash"} : e[f] # raw

\* A request was told of its image: the image is in the store and one audit
\* entry, with the digest of its prompt, was logged.
C15_Witness ==
  \E r \in Reqs :
    /\ pc[r] = "done"
    /\ Succeeded(r)
    /\ Cardinality(Artifacts) = 1
    /\ Len(auditLog) = 1
    /\ auditLog[1].by = r
    /\ auditLog[1].entry.prompt_hash = Sha16(Join(req[r].prompt))

\* The mandatory block: GLOBAL_NEGATIVE_PROMPT without its surrounding newlines.
MandatoryBlock == Strip(GLOBAL_NEGATIVE_PROMPT)

EndsWith(t, suffix) ==
  Len(t) >= Len(suffix) /\ SubSeq(t, Len(t) - Len(suffix) + 1, Len(t)) = suffix

\* C16: the negative prompt build_safe_prompt returns always ends with the
\* mandatory block, whatever the user's negative prompt (absent, empty, of
\* whitespace only, or not); when the user gave terms it is those terms, a
\* comma, and the block; when the user gave none it is the block and nothing
\* else.
C16_UserTermsThenMandatoryBlock ==
  \A n \in 1..Len(calls) :
    LET c == calls[n]
        user == IF c.negative_prompt = None THEN <<>> ELSE c.negative_prompt[1]
        out == c.result.negative
    IN /\ EndsWith(out, MandatoryBlock)
       /\ Strip(user) # <<>> => out = LStrip(user) \o <<",", " ">> \o MandatoryBlock
       /\ Strip(user) = <<>> => out = MandatoryBlock

\* The inputs of a node that carry an argument of build_comfyui_workflow; all
\* other inputs are links to other nodes or fixed settings.
ArgumentInputs(id) ==
  CASE id = "3" -> {"seed", "steps", "cfg"}
    [] id = "4" -> {"ckpt_name"}
    [] id = "5" -> {"width", "height"}
    [] id = "6" -> {"text"}
    [] id = "7" -> {"text"}
    [] OTHER -> {}

\* Graphs g and h are the same except, possibly, at input f of node id.
SameExceptAt(g, h, id, f) ==
  \A n \in DOMAIN g :
    \A i \in DOMAIN g[n].inputs :
      (n # id \/ i # f) => g[n].inputs[i] = h[n].inputs[i]

\* C17: any two graphs build_comfyui_workflow returns have the same node ids,
\* node types and wiring; for the same arguments they are the same graph; for
\* arguments differing only in the seed they differ only in the seed of the
\* sampler node, and for arguments differing only in the prompt only in the
\* text of the positive encoder node.
C17_GraphShapePreserved ==
  \A m, n \in 1..Len(calls) :
    LET a == calls[m].args
        b == calls[n].args
        g == calls[m].result
        h == calls[n].result
    IN /\ DOMAIN g = {"3", "4", "5", "6", "7", "8", "9"}
       /\ DOMAIN h = DOMAIN g
       /\ \A id \in DOMAIN g :
            /\ g[id].class_type = h[id].class_type
            /\ DOMAIN g[id].inputs = DOMAIN h[id].inputs
            /\ \A i \in DOMAIN g[id].inputs \ ArgumentInputs(id) :
                 g[id].inputs[i] = h[id].inputs[i]
       /\ a = b => g = h
       /\ a = [b EXCEPT !.seed = a.seed] =>
            /\ SameExceptAt(g, h, "3", "seed")
            /\ g["3"].inputs.seed = a.seed
            /\ h["3"].inputs.seed = b.seed
       /\ a = [b EXCEPT !.prompt = a.prompt] =>
            /\ SameExceptAt(g, h, "6", "text")
            /\ g["6"].inputs.text = a.prompt
            /\ h["6"].inputs.text = b.prompt

\* Two graphs were built from arguments differing only in the seed.
C17_Witness ==
  /\ Len(calls) = 2
  /\ calls[1].args.seed # calls[2].args.seed
  /\ calls[1].args = [calls[2].args EXCEPT !.seed = calls[1].args.seed]
  /\ calls[1].result # calls[2].result

\* Request r is in the loop of wait_for_completion.
Polling(r) == pc[r] \in {"poll", "history", "sleep"}

\* The last query of request r on /history did not report its prompt_id.
UncleanQuery(r) ==
  answer[r].path = "/history" /\ ~(answer[r].status_code = 200 /\ answer[r].found)

\* The last query of request r on /history raised instead of being answered.
QueryRaised(r) == answer[r].path = "/history" /\ answer[r].status_code = 0

\* C18 (as stated): after a status query that did not report the handle (an
\* answer with another status than 200, an answer without the handle, or the
\* query failing with a transport error) the job is still polled, until the
\* deadline; a job leaves the loop only with its record or on the deadline.
C18_AnyUncleanQueryIsPending ==
  \A r \in Reqs :
    /\ UncleanQuery(r) => Polling(r) \/ TimedOut(r)
    /\ (prompt_id[r] # None /\ ~Polling(r)) => history[r] # NoHistory \/ TimedOut(r)

\* C18 (amended): after a status query answered with another status than 200,
\* or answered without the handle, the job is still polled, until the deadline;
\* a query that raises ends the loop at once with that exception, and the
\* request fails without another query; a job leaves the loop only with its
\* record, on the deadline, or on a query that raised.
C18_UncleanAnswerIsPending ==
  \A r \in Reqs :
    /\ (UncleanQuery(r) /\ ~QueryRaised(r)) => Polling(r) \/ TimedOut(r)
    /\ QueryRaised(r) =>
         /\ ~Polling(r)
         /\ exc[r].at = "poll" /\ exc[r].type = "Exception"
         /\ history[r] = NoHistory
         /\ IsSync(r) => response[r].kind = "GenerateResponse" /\ ~response[r].success
         /\ IsAsync(r) => callbacks[r] # <<>> /\ callbacks[r][1].payload.status = "failed"
    /\ (prompt_id[r] # None /\ ~Polling(r))
         => history[r] # NoHistory \/ TimedOut(r) \/ QueryRaised(r)

\* A query did not report the handle, the job was queried again, and the second
\* query was answered without the handle: the coroutine sleeps once more.
C18_Witness ==
  \E r \in Reqs :
    /\ Len(queried[r]) = 2
    /\ answer[r] = Answer("/history", 200, FALSE)
    /\ pc[r] = "sleep"
    /\ timeout[r] = Some(MaxTimeout)

\* The status of the job of request r, read off the pipeline: no handle yet;
\* Submitted once queue_prompt returned the prompt_id; Polling from the first
\* query until the record was used up by get_generated_image; then Completed
\* (the image was retrieved), Failed (a query or the fetch failed, or the
\* record had no retrievable image) or TimedOut.
JobStatus(r) ==
  IF prompt_id[r] = None THEN "None"
  ELSE IF TimedOut(r) THEN "TimedOut"
  ELSE IF exc[r].at \in {"poll", "fetch"} THEN "Failed"
  ELSE IF pc[r] = "poll" /\ queried[r] = <<>> THEN "Submitted"
  ELSE IF Polling(r) \/ pc[r] = "view" THEN "Polling"
  ELSE "Completed"

Terminal == {"Completed", "Failed", "TimedOut"}

Rank(status) ==
  CASE status = "None" -> 0
    [] status = "Submitted" -> 1
    [] status = "Polling" -> 2
    [] status \in Terminal -> 3

\* C19: the status of a job only moves forward, Submitted, Polling, then one of
\* Completed, Failed, TimedOut; a terminal status does not change any more;
\* and no query of /history is sent for a job whose record was returned or
\* whose status is terminal.
C19_StatusMovesForward ==
  [][\A r \in Reqs :
       /\ Rank(JobStatus(r)') >= Rank(JobStatus(r))
       /\ Rank(JobStatus(r)') <= Rank(JobStatus(r)) + 1
       /\ JobStatus(r) \in Terminal => JobStatus(r)' = JobStatus(r)
       /\ (JobStatus(r) \in Terminal \/ history[r] # NoHistory)
            => queried'[r] = queried[r]]_vars

\* A job was completed at its second query, and the request went on to its end.
C19_Witness ==
  \E r \in Reqs :
    /\ JobStatus(r) = "Completed"
    /\ Len(queried[r]) = 2
    /\ history[r] # NoHistory
    /\ pc[r] = "done"

\* The engine answered the submission of request r with another status than 200.
SubmissionRefused(r) ==
  answer[r].path = "/prompt" /\ answer[r].status_code \notin {0, 200}

\* C20: when the engine answers the submission with another status than 200,
\* the request fails with the submit error (HTTP 500 "ComfyUI error: ..." for
\* the synchronous caller, one failed callback for the asynchronous one) and
\* its job never exists: no prompt_id, no query of /history, no fetch, no file
\* in the store and no audit entry.
C20_RefusedSubmissionFails ==
  \A r \in Reqs :
    SubmissionRefused(r) =>
      /\ \E text \in EngineTexts :
           /\ exc[r] = HTTPException(500, "ComfyUI error: " \o text, "submit")
           /\ IsSync(r) => response[r] = HTTPError(500, "ComfyUI error: " \o text)
           /\ IsAsync(r) =>
                /\ Len(callbacks[r]) = 1
                /\ callbacks[r][1].payload.status = "failed"
                /\ callbacks[r][1].payload.error = "500: ComfyUI error: " \o text
      /\ prompt_id[r] = None
      /\ JobStatus(r) = "None"
      /\ ~Polling(r)
      /\ queried[r] = <<>>
      /\ viewed[r] = <<>>
      /\ ~WroteBy(r)
      /\ ~AuditedBy(r)
      /\ ~Succeeded(r)

\* The engine refused the submission of an asynchronous request, whose failed
\* callback was then delivered.
C20_Witness ==
  \E r \in Reqs :
    /\ SubmissionRefused(r)
    /\ IsAsync(r)
    /\ pc[r] = "done"
    /\ callbacks[r][1].result = "answered"

\* The record wait_for_completion returned for request r has no output node
\* with an "images" field.
RecordWithoutImages(r) ==
  /\ history[r] # NoHistory
  /\ \/ history[r].outputs = None
     \/ \A k \in 1..Len(history[r].outputs[1]) : history[r].outputs[1][k][2].images = None

\* C21: when the record returned for a job has no output node with an images
\* field, the request fails with "No image found in output" (HTTP 500 for the
\* synchronous caller, one failed callback for the asynchronous one): nothing
\* is asked on /view, nothing is written to the store, no audit entry is logged.
C21_RecordWithoutImagesFails ==
  \A r \in Reqs :
    RecordWithoutImages(r) =>
      /\ exc[r] = HTTPException(500, "No image found in output", "fetch")
      /\ JobStatus(r) = "Failed"
      /\ viewed[r] = <<>>
      /\ ~WroteBy(r)
      /\ ~AuditedBy(r)
      /\ ~Succeeded(r)
      /\ IsSync(r) => response[r] = HTTPError(500, "No image found in output")
      /\ IsAsync(r) =>
           /\ Len(callbacks[r]) = 1
           /\ callbacks[r][1].payload.status = "failed"
           /\ callbacks[r][1].payload.error = "500: No image found in output"

\* The engine returned a record whose only output node has no images, for a
\* synchronous request.
C21_Witness ==
  \E r \in Reqs :
    /\ IsSync(r)
    /\ history[r] = [outputs |-> Some(<< <<"8", NodeOut(None)>> >>)]
    /\ answer[r] = Answer("/history", 200, TRUE)
    /\ pc[r] = "done"

\* The positions of the output nodes of a record that have an "images" field.
NodesWithImages(h) ==
  IF h.outputs = None THEN {}
  ELSE {k \in 1..Len(h.outputs[1]) : h.outputs[1][k][2].images # None}

\* The first image of the first output node that has an "images" field.
FirstImage(h) ==
  LET k == CHOOSE i \in NodesWithImages(h) : \A j \in NodesWithImages(h) : i <= j
  IN h.outputs[1][k][2].images[1][1]

\* C22: get_generated_image takes the first image of the first output node
\* that has an images field: at most one GET of /view is made for a job, it
\* asks for that image, and the bytes stored are those of that image.
C22_OnlyFirstImageFetched ==
  \A r \in Reqs :
    (history[r] # NoHistory /\ NodesWithImages(history[r]) # {}) =>
      /\ Len(viewed[r]) <= 1
      /\ \A i \in 1..Len(viewed[r]) : viewed[r][i] = FirstImage(history[r]).filename
      /\ \A i \in 1..Len(store) :
           (store[i].by = r /\ store[i].data # Truncated)
             => store[i].data = Content(FirstImage(history[r]).filename)

\* C23: with the filter enabled, a text matching the patterns of several
\* categories is rejected with the name of the one declared first in
\* BLOCKED_PATTERNS and of no other, and two texts with the same first
\* category get the same result whatever later categories each also matches.
C23_EarliestDeclaredCategoryWins ==
  ENABLE_SAFETY =>
    \A m, n \in 1..Len(calls) :
      LET a == calls[m]
          b == calls[n]
          fa == MatchingOf[a.prompt]
          fb == MatchingOf[b.prompt]
      IN /\ Cardinality(fa) >= 2 =>
              /\ a.result = Rejection(BLOCKED_PATTERNS[Winner(a.prompt)].category)
              /\ \A i \in fa \ {Winner(a.prompt)} :
                   /\ i > Winner(a.prompt)
                   /\ a.result # Rejection(BLOCKED_PATTERNS[i].category)
         /\ (fa # {} /\ fb # {} /\ fa # fb /\ Winner(a.prompt) = Winner(b.prompt))
              => a.result = b.result

\* A text matching professions and age_down, and one matching professions
\* only, were both rejected as professions.
C23_Witness ==
  /\ ENABLE_SAFETY
  /\ Len(calls) = 2
  /\ calls[1].prompt = <<"actress", " ", "Teen">>
  /\ Cardinality(MatchingOf[calls[1].prompt]) = 2
  /\ calls[2].prompt = <<"actress">>
  /\ calls[1].result = Rejection("professions")
  /\ calls[2].result = calls[1].result

\* ------------------------------------------------------------------- C24
\* What the coroutine of request r holds, and what the engine and the callers
\* saw of it.
Own(r) ==
  <<pc[r], req[r], seed[r], workflow[r], prompt_id[r], timeout[r], start_time[r],
    history[r], cursor[r], wake[r], response[r], spawned[r], task[r], exc[r],
    callbacks[r], posted[r], queried[r], viewed[r], answer[r]>>

\* The writes request r made into the store.
OwnFiles(r) == {i \in 1..Len(store) : store[i].by = r}

\* Request r asks the engine about its own job only, its files hold the image
\* of its own job, and what its caller is told is made of its own request, its
\* own seed, its own file and its own exception, the exception having its cause
\* in an answer given to r or in r's own deadline.
OwnHandleAndOutcome(r) ==
  /\ \A i \in 1..Len(queried[r]) :
       prompt_id[r] # None /\ queried[r][i] = prompt_id[r][1]
  /\ \A q \in Reqs \ {r} :
       (prompt_id[r] # None /\ prompt_id[q] # None) => prompt_id[r] # prompt_id[q]
  /\ \A i \in 1..Len(viewed[r]) :
       \E k \in 1..Len(ImagesOf(Outputs(history[r]))) :
         viewed[r][i] = ImagesOf(Outputs(history[r]))[k].filename
  /\ \A i \in OwnFiles(r) :
       store[i].data # Truncated => store[i].data = Content(viewed[r][Len(viewed[r])])
  /\ (IsSync(r) /\ response[r].kind = "GenerateResponse" /\ response[r].success) =>
       \E i \in OwnFiles(r) :
         response[r] = GenerateResponse(TRUE, Some("/images/" \o store[i].filename),
                                        Some(Sha16(store[i].data)), seed[r], None)
  /\ (IsSync(r) /\ exc[r] # NoExc) =>
       response[r] = IF exc[r].type = "HTTPException"
                     THEN HTTPError(exc[r].status_code, exc[r].detail)
                     ELSE GenerateResponse(FALSE, None, None, None, Some(Str(exc[r])))
  /\ \A i \in 1..Len(callbacks[r]) :
       LET p == callbacks[r][i].payload
       IN IF p.status = "completed"
          THEN \E k \in OwnFiles(r) :
                 p = SuccessPayload(r, store[k].filename, Sha16(store[k].data), seed[r][1])
          ELSE p = ErrorPayload(r, exc[r])
  /\ exc[r].at = "submit" =>
       (answer[r].path = "/prompt" /\ answer[r].status_code # 200)
  /\ TimedOut(r) => now - start_time[r][1] > timeout[r][1]
  /\ exc[r].at = "fetch" =>
       (answer[r].path = "/view" /\ answer[r].status_code # 200)

\* A step of request r leaves everything of the other requests as it was: their
\* coroutines, what the engine and their callers saw of them, their files and
\* their audit entries.
StepOfOneRequest ==
  \A r \in Reqs :
    Own(r)' # Own(r) =>
      /\ \A q \in Reqs \ {r} : Own(q)' = Own(q)
      /\ Len(store') >= Len(store)
      /\ SubSeq(store', 1, Len(store)) = store
      /\ \A i \in (Len(store) + 1)..Len(store') : store'[i].by = r
      /\ Len(auditLog') >= Len(auditLog)
      /\ SubSeq(auditLog', 1, Len(auditLog)) = auditLog
      /\ \A i \in (Len(auditLog) + 1)..Len(auditLog') : auditLog'[i].by = r

\* C24: with two requests in the process at once, synchronous or asynchronous
\* and interleaved in every way, each request asks for the status and the image
\* of its own job only, its response or callback carries its own request_id,
\* seed, image reference and error, and no step of one request (its failure and
\* its timeout included) changes anything of the other.
C24_RequestsAreIsolated ==
  /\ [](\A r \in Reqs : OwnHandleAndOutcome(r))
  /\ [][StepOfOneRequest]_vars

\* Two jobs were submitted in the same second; the one submitted last timed
\* out, the other was asked about twice and then succeeded.
C24_Witness ==
  /\ pc[1] = "done" /\ pc[2] = "done"
  /\ prompt_id[1] = Some(2) /\ prompt_id[2] = Some(1)
  /\ start_time[1] = start_time[2]
  /\ TimedOut(1)
  /\ Len(queried[2]) = 2
  /\ Succeeded(2)

\* ------------------------------------------------------------------- C25
\* Everything the engine received for request r.
SentToEngine(r) == <<posted[r], queried[r], viewed[r]>>

\* C25: a submitted job's pipeline reaches Completed, Failed or TimedOut (the
\* awaits end and the clock advances): at every moment there is a later one at
\* which the job is terminal, if it was submitted at all.  The status reached
\* is kept, and from then on the engine receives nothing more for the job: the
\* only requests it ever received are the POST of /prompt and the GETs of
\* /history and /view.
C25_SubmittedJobEndsUncancelled ==
  /\ \A r \in Reqs : []<>(JobStatus(r) \in {"None"} \cup Terminal)
  /\ [][\A r \in Reqs :
          JobStatus(r) \in Terminal =>
            /\ JobStatus(r)' = JobStatus(r)
            /\ SentToEngine(r)' = SentToEngine(r)]_vars
  /\ [](\A r \in Reqs : answer[r].path \in {"none", "/prompt", "/history", "/view"})

\* A job timed out after three status queries; the last thing the engine
\* received for it was a GET of /history.
C25_Witness ==
  \E r \in Reqs :
    /\ pc[r] = "done"
    /\ JobStatus(r) = "TimedOut"
    /\ Len(queried[r]) = 3
    /\ viewed[r] = <<>>
    /\ answer[r].path = "/history"

\* ------------------------------------------------------------------- C26
\* Request r's callback URL was sent a "failed" report.
ReportedFailed(r) ==
  \E i \in 1..Len(callbacks[r]) : callbacks[r][i].payload.status = "failed"

\* C26: an asynchronous request is reported "failed" to its callback URL only
\* if no image of it was stored and no audit entry was logged for it.
C26_FailedOnlyWithoutArtifact ==
  \A r \in Reqs :
    (IsAsync(r) /\ ReportedFailed(r)) => (~StoredBy(r) /\ ~AuditedBy(r))

\* ------------------------------------------------------------------- C27
\* The success outcomes request r was given: image_url and image_hash of its
\* response (success=true) or of its "completed" callback.
SuccessOutcomes(r) ==
  (IF IsSync(r) /\ response[r].kind = "GenerateResponse" /\ response[r].success
   THEN {[image_url |-> response[r].image_url[1], image_hash |-> response[r].image_hash[1]]}
   ELSE {})
    \cup {[image_url |-> callbacks[r][i].payload.image_url,
           image_hash |-> callbacks[r][i].payload.image_hash] :
            i \in {k \in 1..Len(callbacks[r]) :
                     IsAsync(r) /\ callbacks[r][k].payload.status = "completed"}}

\* C27: when a request has a success outcome, its image is in the store and
\* its audit entry is logged; the image_url of the outcome names that file,
\* the file's name begins with the outcome's image_hash, and the audit entry
\* holds the same image_hash and the same filename.
C27_SuccessNamesStoredAuditedImage ==
  \A r \in Reqs :
    \A o \in SuccessOutcomes(r) :
      \E i \in OwnFiles(r), k \in AuditsOf(r) :
        /\ store[i].data # Truncated
        /\ o.image_url = "/images/" \o store[i].filename
        /\ \E suffix \in Suffixes :
             store[i].filename = o.image_hash \o "_" \o suffix \o ".png"
        /\ o.image_hash = Sha16(store[i].data)
        /\ auditLog[k].entry.image_hash = o.image_hash
        /\ auditLog[k].entry.filename = store[i].filename

\* A "completed" callback was delivered for a request whose image is stored
\* and audited.
C27_Witness ==
  \E r \in Reqs :
    /\ pc[r] = "done"
    /\ SuccessOutcomes(r) # {}
    /\ IsAsync(r)
    /\ callbacks[r][1].result = "answered"
    /\ StoredBy(r) /\ AuditedBy(r)

\* ------------------------------------------------------------------- C28
\* Seconds since wait_for_completion of request r began.
Elapsed(r) == now - start_time[r][1]

\* C28: a status query is sent only while the elapsed time does not exceed the
\* deadline; a loop that comes to its test after the deadline reports TimedOut
\* without another query, whatever the engine would answer by then, and no
\* query follows a reported timeout.
C28_NoQueryPastDeadline ==
  [][\A r \in Reqs :
       /\ queried[r]' # queried[r] => Elapsed(r) <= timeout[r][1]
       /\ (pc[r] = "poll" /\ Elapsed(r) > timeout[r][1] /\ pc[r]' # pc[r]) =>
            (TimedOut(r)' /\ queried[r]' = queried[r] /\ history[r]' = NoHistory)
       /\ TimedOut(r) => (TimedOut(r)' /\ queried[r]' = queried[r])]_vars

\* With a deadline of one second: queries at 0 s and 1 s found no record, the
\* test after the next sleep reported TimedOut.
C28_Witness ==
  \E r \in Reqs :
    /\ TimedOut(r)
    /\ timeout[r] = Some(1)
    /\ Len(queried[r]) = 2
    /\ history[r] = NoHistory
    /\ answer[r] = Answer("/history", 200, FALSE)

\* ------------------------------------------------------------------- C29
\* The filter's verdict on request r was a rejection.
Rejected(r) == exc[r].at = "validate"

\* The text of the negative conditioning node of the graph request r submitted.
SubmittedNegative(r) == posted[r][1]["7"].inputs.text

\* C29: whether a request is rejected depends on its prompt (and on the
\* process's ENABLE_SAFETY) and on no other field; the negative prompt of an
\* accepted request is in the submitted graph as the caller wrote it, names
\* the filter would block in a prompt included.
C29_VerdictFromPromptAlone ==
  \A r \in Reqs :
    Received(r) =>
      /\ Rejected(r) <=> (ENABLE_SAFETY /\ MatchingOf[req[r].prompt] # {})
      /\ posted[r] # <<>> =>
           LET negative == NegativeOrEmpty(req[r].negative_prompt)
           IN /\ ~Rejected(r)
              /\ SubSeq(SubmittedNegative(r), 1, Len(negative)) = negative

\* With the filter on, a request whose negative prompt is "taylor swift" (a
\* text the filter rejects as a prompt) was accepted and its graph submitted
\* with that text.
C29_Witness ==
  \E r \in Reqs :
    /\ Received(r)
    /\ ENABLE_SAFETY
    /\ req[r].prompt = P_mountain
    /\ req[r].negative_prompt = Some(N_taylor)
    /\ ~Rejected(r)
    /\ prompt_id[r] # None
    /\ SubSeq(SubmittedNegative(r), 1, 3) = N_taylor
    /\ Matching(N_taylor) # {}

\* ------------------------------------------------------------------- C30
RECURSIVE SharesUpTo(_, _)
\* The weighted shares of the first k scenarios for a count.
SharesUpTo(k, count) ==
  IF k = 0 THEN 0
  ELSE SharesUpTo(k - 1, count) + ((SCENARIOS[k].weight * count) \div total_weight)

\* The calls of build_image_variations with a count >= 0.
VariationCalls ==
  {i \in 1..Len(calls) : calls[i].fn = "build_image_variations" /\ calls[i].count >= 0}

\* C30: for every persona and every count >= 0, build_image_variations returns
\* count variations numbered 0, 1, ..., count-1 in order; the weighted shares
\* of the scenarios add up to no more than count, they come first, scenario by
\* scenario, and every variation after them is a selfie.
C30_CountVariationsNumberedInOrder ==
  \A c \in VariationCalls :
    LET count == calls[c].count
        result == calls[c].result
        shares == SharesUpTo(Len(SCENARIOS), count)
    IN /\ Len(result) = count
       /\ \A i \in 1..Len(result) : result[i].image_number = i - 1
       /\ shares <= count
       /\ \A k \in 1..Len(SCENARIOS) :
            \A i \in (SharesUpTo(k - 1, count) + 1)..SharesUpTo(k, count) :
              result[i].scenario = SCENARIOS[k].name
       /\ \A i \in (shares + 1)..count : result[i].scenario = "selfie"

\* A call with count 12: five variations from the weighted shares, seven
\* selfies to fill up.
C30_Witness ==
  \E c \in VariationCalls :
    /\ calls[c].count = 12
    /\ Len(calls[c].result) = 12
    /\ calls[c].result[1].scenario = "morning"
    /\ calls[c].result[5].scenario = "flirty"
    /\ \A i \in 6..12 : calls[c].result[i].scenario = "selfie"
    /\ calls[c].result[12].image_number = 11

====
